---- MODULE Spec2Model ----
(***************************************************************************)
(* Mesocarnivore data administration scripts.                              *)
(*                                                                         *)
(* Every script is a batch job against hosted feature layers: it queries   *)
(* records, compares them in memory and pushes edits back.  The model has  *)
(* one group of variables per family of scripts and one specification per  *)
(* family.  An action is one service call together with the local code     *)
(* that runs up to the next service call; the outcome of a service call    *)
(* (success, reported failure, exception) is chosen by the environment.    *)
(*                                                                         *)
(*   SpecDiffer : append_data_to_editing_flayer.py, upload_chefs_to_ago.py *)
(***************************************************************************)
EXTENDS Integers, Sequences, FiniteSets, TLC

\* ----- bounds of the model ------------------------------------------------
MaxOid == 2        \* source objectids are 1..MaxOid
MaxAtt == 1        \* attachments stored on one source record
MaxRuns == 2       \* scheduled runs of one script in a behaviour

NULL == "null"

\* The runs of the append script.  Scheduled runs execute one at a time as
\* runA; runB is a second, overlapping invocation.
Procs == {"runA", "runB"}

Oids == 1..MaxOid

\* ----- small helpers ------------------------------------------------------
Range(s) == {s[i] : i \in DOMAIN s}

\* all orderings of a finite set, each element once
Perms(S) == {s \in [1..Cardinality(S) -> S] : Range(s) = S}

\* a set of integers as the ascending list a layer query returns
RECURSIVE Ascending(_)
Ascending(S) ==
  IF S = {} THEN <<>>
  ELSE LET m == CHOOSE x \in S : \A y \in S : x <= y
       IN <<m>> \o Ascending(S \ {m})

\* ---------------------------------------------------------------------------
\* State
\* ---------------------------------------------------------------------------
\* append_data_to_editing_flayer.py
VARIABLES
  raw,           \* raw layer: objectid -> [photo_name, atts]
  editing,       \* editing layer: objectid -> [raw_flayer_oid, atts]
  nextOid,       \* next objectid the editing layer assigns
  pc,            \* per run: position in run_app
  run,           \* per run: number of the invocation
  raw_oids,      \* per run: raw_flayer_properties.sdf['objectid'].tolist()
  editing_oids,  \* per run: editing_flayer_properties.sdf['raw_flayer_oid'].tolist()
  new_oids,      \* per run: the list find_new_oids returned
  idx,           \* per run: position of the for loop over new_oids
  editing_oid,   \* per run: objectId of the add result being processed
  lst,           \* per run: lst_attachments of upload_attachments
  ai,            \* per run: position of the for loop over lst_attachments
  calls,         \* per run: edit and attachment calls issued in this invocation
  log            \* per run: lines printed in this invocation

appVars == <<raw, editing, nextOid, pc, run, raw_oids, editing_oids, new_oids, idx,
             editing_oid, lst, ai, calls, log>>

\* upload_chefs_to_ago.py
VARIABLES
  chefs,                \* CHEFS submissions: the unique_ids submitted
  survey,               \* Survey123 layer: objectid -> [unique_id, photo_name, sighting_type]
  cpc,                  \* position in main
  survey123_properties, \* the layer as queried at the start of main
  new_photos,           \* new_photos_update_df: merged rows with a photo and no sighting type
  new_chefs_records,    \* new_chefs_records_update_df: merged rows with neither
  ccalls,               \* edit calls issued by main
  year                  \* the year pd.to_datetime('today') falls in

chefsVars == <<chefs, survey, cpc, survey123_properties, new_photos, new_chefs_records, ccalls, year>>

\* rename_attachments (backup_data_and_photos.py, upload_chefs_to_ago.py,
\* hair_snag_data_modification.py) and rename_photos (culvert_assessment_data_admin.py)
VARIABLES
  variant,              \* which of the rename routines runs
  photos,               \* the layer: objectid -> [photo_name, atts]
  nextAttId,            \* next attachment id the layer assigns
  rpc,                  \* position in the routine
  rrun,                 \* number of the invocation
  flayer_data,          \* the features as queried at the start of the run
  oidIdx,               \* position of the for loop over the objectids
  attachments_list,     \* attachments.get_list(oid=oid) of the current record
  attIdx,               \* position of the for loop over attachments_list
  attachment_counter,   \* attachment_counter
  photo_name_list,      \* photo_name_list (photo_names in rename_photos)
  features_for_update,  \* features_for_update
  rcalls,               \* attachment and edit calls issued in this invocation
  attached,             \* a photo was attached since the last invocation ended
  rightAfter            \* this invocation started right after one that ran to its end

renVars == <<variant, photos, nextAttId, rpc, rrun, flayer_data, oidIdx, attachments_list,
             attIdx, attachment_counter, photo_name_list, features_for_update, rcalls,
             attached, rightAfter>>

\* the status rollups: camera_check_data_admin.py, hair_snag_data_modification.py,
\* culvert_assessment_data_admin.py
VARIABLES
  script,      \* which of the three scripts runs
  parents,     \* the point layer: parent -> [field -> value]
  checks,      \* the related table: records [parent, ts, vals]
  kpc,         \* position in run_app
  krun,        \* number of the invocation
  point_data,  \* the features of the point layer as queried at the start of the run
  emitted,     \* the updates handed to edit_features in this run: <<field, parent, value>>
  kok,         \* every edit_features call of this run succeeded
  inSync       \* when the run started every parent agreed with its latest check

rollVars == <<script, parents, checks, kpc, krun, point_data, emitted, kok, inSync>>

\* the snapshots: convert_flayer_to_geojson and save_geojson_to_os of
\* backup_data_and_photos.py, restore_data_from_os.py
VARIABLES
  source,        \* flayer_data: the features of the layer that is exported
  geojson,       \* the document convert_flayer_to_geojson returned
  bucket,        \* the objects of the bucket, in listing order
  geojson_data,  \* the document get_object_storage_content loaded
  dest,          \* the layer that is restored
  spc,           \* position in the export and in the restore script
  fidx,          \* position of the loop of restore_data over the features
  sok            \* every service call of the restore succeeded

snapVars == <<source, geojson, bucket, geojson_data, dest, spc, fidx, sok>>

\* download_attachments / copy_to_object_storage (backup_data_and_photos.py,
\* simpcw_badger_photos.py)
VARIABLES
  ostore,      \* the names of the photos in the object store
  uploads,     \* the files the copy of this run uploaded, in order: [oid, name]
  copied,      \* number of the run whose download_attachments was executed last
  cleanRuns    \* the runs in which every service call succeeded

copyVars == <<ostore, uploads, copied, cleanRuns>>

\* the data requests: export_culvert_assessment_data.py
VARIABLES
  requests,     \* the request layer: globalid -> [submission_status, initials, start_date, end_date]
  assessments,  \* the culvert assessment table: OBJECTID -> [ASSESSOR_INITIALS, DATE_ASSESSED]
  xpc,          \* where main is
  xrun,         \* number of the current run
  new_guids,    \* the globalids check_new_records returned
  gidx,         \* position of the for loop in new_guids
  mails,        \* the mails this run sent: [run, guid, kind]
  archives      \* the requests whose zip file this run uploaded

reqVars == <<requests, assessments, xpc, xrun, new_guids, gidx, mails, archives>>

vars == <<appVars, chefsVars, renVars, rollVars, snapVars, copyVars, reqVars>>

\* what the append script leaves alone
AppendOnly == UNCHANGED <<chefsVars, renVars, rollVars, snapVars, copyVars, reqVars>>
\* what the CHEFS upload leaves alone
ChefsOnly == UNCHANGED <<appVars, renVars, rollVars, snapVars, copyVars, reqVars>>
\* what the rename routines leave alone
RenameOnly == UNCHANGED <<appVars, chefsVars, rollVars, snapVars, copyVars, reqVars>>
\* what the status rollups leave alone
RollupOnly == UNCHANGED <<appVars, chefsVars, renVars, snapVars, copyVars, reqVars>>
\* what the export and the restore leave alone
SnapshotOnly == UNCHANGED <<appVars, chefsVars, renVars, rollVars, copyVars, reqVars>>
\* what the copy to the object store leaves alone, beside the layer
CopyOnly == UNCHANGED <<appVars, chefsVars, rollVars, snapVars, reqVars>>
\* what the export of the culvert assessments leaves alone
RequestOnly == UNCHANGED <<appVars, chefsVars, renVars, rollVars, snapVars, copyVars>>

\* ---------------------------------------------------------------------------
\* append_data_to_editing_flayer.py
\* ---------------------------------------------------------------------------
\* ----- the two layers ------------------------------------------------------
\* a raw record: whether photo_name is non-empty, and its attachment ids 1..atts
RawRecords == [photo_name : BOOLEAN, atts : 0..MaxAtt]

\* the editing layer the script has built so far: one record per copied oid
InitialEditing(S) ==
  LET order == Ascending(S)
  IN [o \in 1..Len(order) |-> [raw_flayer_oid |-> order[o], atts |-> <<>>]]

\* layer.query(): the column of a layer as a list, in objectid order
ColumnEmpty(layer, field) == <<>>
Column(layer, field) ==
  LET order == Ascending(DOMAIN layer)
  IN [i \in 1..Len(order) |-> layer[order[i]][field]]

\* get_feature_layer_data: the two queries of one invocation
GetFeatureLayerData(p) ==
  /\ pc[p] = "start"
  /\ raw_oids' = [raw_oids EXCEPT ![p] = Ascending(DOMAIN raw)]
  /\ editing_oids' = [editing_oids EXCEPT ![p] = Column(editing, "raw_flayer_oid")]
  /\ pc' = [pc EXCEPT ![p] = "find"]
  /\ UNCHANGED <<raw, editing, nextOid, run, new_oids, idx, editing_oid, lst, ai, calls, log>>
  /\ AppendOnly

\* find_new_oids: set(raw_oids) - set(editing_oids)
NewOidSetNoDiff(rawList, editingList) == Range(rawList)
NewOidSet(rawList, editingList) == Range(rawList) \ Range(editingList)

\* list(new_oids): a set listed in an order the code does not control
FindNewOidsResults(rawList, editingList) == Perms(NewOidSet(rawList, editingList))

FindNewOids(p) ==
  /\ pc[p] = "find"
  /\ \E result \in FindNewOidsResults(raw_oids[p], editing_oids[p]) :
       /\ new_oids' = [new_oids EXCEPT ![p] = result]
       /\ IF result # <<>>
          THEN /\ pc' = [pc EXCEPT ![p] = "add"]
               /\ idx' = [idx EXCEPT ![p] = 1]
               /\ log' = log
          ELSE \* print("No new features found, exiting script"); exit()
               /\ pc' = [pc EXCEPT ![p] = "exit"]
               /\ idx' = idx
               /\ log' = [log EXCEPT ![p] = @ \cup {<<"no_new_features", 0>>}]
  /\ UNCHANGED <<raw, editing, nextOid, run, raw_oids, editing_oids, editing_oid, lst, ai, calls>>
  /\ AppendOnly


\* ----- add_new_features ----------------------------------------------------
\* the for loop over new_oids moves on to the next identifier
NextOidBreak(p) ==
  /\ pc' = [pc EXCEPT ![p] = "done"]
  /\ idx' = idx
NextOid(p) ==
  IF idx[p] < Len(new_oids[p])
  THEN /\ pc' = [pc EXCEPT ![p] = "add"]
       /\ idx' = [idx EXCEPT ![p] = @ + 1]
  ELSE /\ pc' = [pc EXCEPT ![p] = "done"]
       /\ idx' = idx

\* outcomes of edit_features: the item succeeded, the item was reported with
\* success false, or the call raised
EditOutcomes == {"ok", "fail", "raise"}

\* the editing layer after a successful add: the copy of the raw feature, with
\* new_feature.attributes['raw_flayer_oid'] = oid, under a fresh objectid
AddedFeatureOwnOid(layer, newOid, oid) ==
  [o \in DOMAIN layer \cup {newOid} |->
     IF o = newOid THEN [raw_flayer_oid |-> newOid, atts |-> <<>>] ELSE layer[o]]
AddedFeature(layer, newOid, oid) ==
  [o \in DOMAIN layer \cup {newOid} |->
     IF o = newOid THEN [raw_flayer_oid |-> oid, atts |-> <<>>] ELSE layer[o]]

\* editing_flayer.edit_features(adds=[new_feature]) for new_oids[idx]
AddFeature(p) ==
  /\ pc[p] = "add"
  /\ LET oid == new_oids[p][idx[p]] IN
     /\ calls' = [calls EXCEPT ![p] = @ \cup {<<"add", oid>>}]
     /\ \E outcome \in EditOutcomes :
          CASE outcome = "ok" ->
                 /\ editing' = AddedFeature(editing, nextOid, oid)
                 /\ nextOid' = nextOid + 1
                 /\ editing_oid' = [editing_oid EXCEPT ![p] = nextOid]
                 /\ log' = [log EXCEPT ![p] = @ \cup {<<"added", oid>>}]
                 /\ IF raw[oid].photo_name
                    THEN /\ pc' = [pc EXCEPT ![p] = "list"]
                         /\ idx' = idx
                    ELSE NextOid(p)
            [] outcome = "fail" ->
                 /\ log' = [log EXCEPT ![p] = @ \cup {<<"add_failed", oid>>}]
                 /\ NextOid(p)
                 /\ UNCHANGED <<editing, nextOid, editing_oid>>
            [] outcome = "raise" ->
                 /\ log' = [log EXCEPT ![p] = @ \cup {<<"update_error", oid>>}]
                 /\ NextOid(p)
                 /\ UNCHANGED <<editing, nextOid, editing_oid>>
  /\ UNCHANGED <<raw, run, raw_oids, editing_oids, new_oids, lst, ai>>
  /\ AppendOnly

\* ----- upload_attachments --------------------------------------------------
\* the for loop over lst_attachments moves on to the next attachment
NextAttachment(p) ==
  IF ai[p] < Len(lst[p])
  THEN /\ pc' = [pc EXCEPT ![p] = "download"]
       /\ ai' = [ai EXCEPT ![p] = @ + 1]
       /\ idx' = idx
  ELSE /\ ai' = ai
       /\ NextOid(p)

\* raw_flayer.attachments.get_list(oid=oid)
GetList(p) ==
  /\ pc[p] = "list"
  /\ LET oid == new_oids[p][idx[p]] IN
     /\ calls' = [calls EXCEPT ![p] = @ \cup {<<"att_list", oid>>}]
     /\ \E outcome \in {"ok", "raise"} :
          IF outcome = "ok"
          THEN /\ lst' = [lst EXCEPT ![p] = [i \in 1..raw[oid].atts |-> i]]
               /\ log' = log
               /\ IF raw[oid].atts > 0
                  THEN /\ pc' = [pc EXCEPT ![p] = "download"]
                       /\ ai' = [ai EXCEPT ![p] = 1]
                       /\ idx' = idx
                  ELSE /\ ai' = ai
                       /\ NextOid(p)
          ELSE /\ log' = [log EXCEPT ![p] = @ \cup {<<"list_error", oid>>}]
               /\ UNCHANGED <<lst, ai>>
               /\ NextOid(p)
  /\ UNCHANGED <<raw, editing, nextOid, run, raw_oids, editing_oids, new_oids, editing_oid>>
  /\ AppendOnly

\* raw_flayer.attachments.download(oid=oid, attachment_id=attach_id)[0]
Download(p) ==
  /\ pc[p] = "download"
  /\ LET oid == new_oids[p][idx[p]] IN
     /\ calls' = [calls EXCEPT ![p] = @ \cup {<<"att_download", oid>>}]
     /\ \E outcome \in {"file", "no_file", "raise"} :
          CASE outcome = "file" ->
                 /\ pc' = [pc EXCEPT ![p] = "attach"]
                 /\ UNCHANGED <<idx, ai, log>>
            [] outcome = "no_file" ->
                 /\ log' = [log EXCEPT ![p] = @ \cup {<<"no_file", oid>>}]
                 /\ NextAttachment(p)
            [] outcome = "raise" ->
                 /\ log' = [log EXCEPT ![p] = @ \cup {<<"attachment_error", oid>>}]
                 /\ pc' = [pc EXCEPT ![p] = "rollback"]
                 /\ UNCHANGED <<idx, ai>>
  /\ UNCHANGED <<raw, editing, nextOid, run, raw_oids, editing_oids, new_oids, editing_oid, lst>>
  /\ AppendOnly

\* editing_flayer.attachments.add(oid=editing_oid, file_path=attach_file);
\* the call raises when the record is no longer on the layer
Attach(p) ==
  /\ pc[p] = "attach"
  /\ LET oid == new_oids[p][idx[p]]
         eo == editing_oid[p] IN
     /\ calls' = [calls EXCEPT ![p] = @ \cup {<<"att_add", oid>>}]
     /\ \E outcome \in (IF eo \in DOMAIN editing THEN {"ok", "raise"} ELSE {"raise"}) :
          IF outcome = "ok"
          THEN /\ editing' = [editing EXCEPT ![eo].atts = Append(@, lst[p][ai[p]])]
               /\ log' = log
               /\ NextAttachment(p)
          ELSE /\ log' = [log EXCEPT ![p] = @ \cup {<<"attachment_error", oid>>}]
               /\ pc' = [pc EXCEPT ![p] = "rollback"]
               /\ UNCHANGED <<editing, idx, ai>>
  /\ UNCHANGED <<raw, nextOid, run, raw_oids, editing_oids, new_oids, editing_oid, lst>>
  /\ AppendOnly

\* editing_flayer.edit_features(deletes=[editing_oid]) after an attachment error
RemoveFeature(layer, oid) == [o \in DOMAIN layer \ {oid} |-> layer[o]]

Rollback(p) ==
  /\ pc[p] = "rollback"
  /\ LET oid == new_oids[p][idx[p]] IN
     /\ calls' = [calls EXCEPT ![p] = @ \cup {<<"delete", oid>>}]
     /\ \E outcome \in EditOutcomes :
          CASE outcome = "ok" ->
                 /\ editing' = RemoveFeature(editing, editing_oid[p])
                 /\ log' = [log EXCEPT ![p] = @ \cup {<<"removed", oid>>}]
            [] outcome = "fail" ->
                 \* the delete result is not inspected: the line is printed all the same
                 /\ editing' = editing
                 /\ log' = [log EXCEPT ![p] = @ \cup {<<"removed", oid>>}]
            [] outcome = "raise" ->
                 /\ editing' = editing
                 /\ log' = [log EXCEPT ![p] = @ \cup {<<"remove_error", oid>>}]
     /\ NextAttachment(p)
  /\ UNCHANGED <<raw, nextOid, run, raw_oids, editing_oids, new_oids, editing_oid, lst>>
  /\ AppendOnly

\* the scheduler starts the next invocation once this one has ended
NextRun(p) ==
  /\ pc[p] \in {"done", "exit"}
  /\ run[p] < MaxRuns
  /\ run' = [run EXCEPT ![p] = @ + 1]
  /\ pc' = [pc EXCEPT ![p] = "start"]
  /\ raw_oids' = [raw_oids EXCEPT ![p] = <<>>]
  /\ editing_oids' = [editing_oids EXCEPT ![p] = <<>>]
  /\ new_oids' = [new_oids EXCEPT ![p] = <<>>]
  /\ idx' = [idx EXCEPT ![p] = 0]
  /\ editing_oid' = [editing_oid EXCEPT ![p] = 0]
  /\ lst' = [lst EXCEPT ![p] = <<>>]
  /\ ai' = [ai EXCEPT ![p] = 0]
  /\ calls' = [calls EXCEPT ![p] = {}]
  /\ log' = [log EXCEPT ![p] = {}]
  /\ UNCHANGED <<raw, editing, nextOid>>
  /\ AppendOnly

\* ----- the append script -----------------------------------------------------
AppendIdle ==
  /\ raw = <<>>
  /\ editing = <<>>
  /\ nextOid = 1
  /\ pc = [p \in Procs |-> "idle"]
  /\ run = [p \in Procs |-> 0]
  /\ raw_oids = [p \in Procs |-> <<>>]
  /\ editing_oids = [p \in Procs |-> <<>>]
  /\ new_oids = [p \in Procs |-> <<>>]
  /\ idx = [p \in Procs |-> 0]
  /\ editing_oid = [p \in Procs |-> 0]
  /\ lst = [p \in Procs |-> <<>>]
  /\ ai = [p \in Procs |-> 0]
  /\ calls = [p \in Procs |-> {}]
  /\ log = [p \in Procs |-> {}]

\* one scheduled invocation (runA) against any raw layer and any editing layer
\* built from it
AppendInit ==
  /\ raw \in UNION {[S -> RawRecords] : S \in SUBSET Oids}
  /\ \E S \in SUBSET Oids :
       /\ editing = InitialEditing(S)
       /\ nextOid = Cardinality(S) + 1
  /\ pc = [p \in Procs |-> IF p = "runA" THEN "start" ELSE "idle"]
  /\ run = [p \in Procs |-> IF p = "runA" THEN 1 ELSE 0]
  /\ raw_oids = [p \in Procs |-> <<>>]
  /\ editing_oids = [p \in Procs |-> <<>>]
  /\ new_oids = [p \in Procs |-> <<>>]
  /\ idx = [p \in Procs |-> 0]
  /\ editing_oid = [p \in Procs |-> 0]
  /\ lst = [p \in Procs |-> <<>>]
  /\ ai = [p \in Procs |-> 0]
  /\ calls = [p \in Procs |-> {}]
  /\ log = [p \in Procs |-> {}]

\* run_app: one invocation
AppendRun ==
  \E p \in Procs :
    \/ GetFeatureLayerData(p)
    \/ FindNewOids(p)
    \/ AddFeature(p)
    \/ GetList(p)
    \/ Download(p)
    \/ Attach(p)
    \/ Rollback(p)

\* ---------------------------------------------------------------------------
\* upload_chefs_to_ago.py
\* ---------------------------------------------------------------------------
MaxUid == 2       \* unique_ids are 1..MaxUid
MaxSurvey == 2    \* features on the Survey123 layer when main starts
MaxYear == 2      \* main runs in the years 1..MaxYear; 0 is any earlier year

Uids == 1..MaxUid
Years == 0..MaxYear

\* a Survey123 feature: its unique_id, whether photo_name is set, whether
\* sighting_type is set (the CHEFS answers were already copied onto it), the
\* year of its CreationDate and the account that created it
SurveyFeatures ==
  [unique_id : Uids, photo_name : BOOLEAN, sighting_type : BOOLEAN,
   CreationDate : Years, Creator : {"survey123", "script"}]

\* QUERY: CreationDate >= '{year}-01-01' AND unique_id IS NOT NULL
Query(layer, yr) ==
  [o \in {o \in DOMAIN layer : layer[o].CreationDate >= yr} |-> layer[o]]

\* merge_dataframes: left join of the CHEFS rows with the layer on unique_id;
\* a row is <<unique_id, objectid>>, objectid 0 when no feature matches
MergeDataframes(chefs_df, layer) ==
  {r \in chefs_df \X DOMAIN layer : layer[r[2]].unique_id = r[1]}
    \cup {<<u, 0>> : u \in {u \in chefs_df : \A o \in DOMAIN layer : layer[o].unique_id # u}}

\* filter_dataframes: rows with a photo and no sighting type yet
NewPhotosDfAll(master, layer) == master
NewPhotosDf(master, layer) ==
  {r \in master : r[2] # 0 /\ layer[r[2]].photo_name /\ ~layer[r[2]].sighting_type}

\* filter_dataframes: rows with no photo and no sighting type yet
NewChefsRecordsDf(master, layer) ==
  {r \in master : r[2] = 0 \/ (~layer[r[2]].photo_name /\ ~layer[r[2]].sighting_type)}

\* get_ago_data, chefs_data_api_request, merge_dataframes, filter_dataframes
ChefsGetData ==
  /\ cpc = "start"
  /\ LET survey123_df == Query(survey, year) IN
       /\ survey123_properties' = survey123_df
       /\ new_photos' = NewPhotosDf(MergeDataframes(chefs, survey123_df), survey123_df)
       /\ new_chefs_records' =
            NewChefsRecordsDf(MergeDataframes(chefs, survey123_df), survey123_df)
  /\ cpc' = "filtered"
  /\ UNCHANGED <<chefs, survey, ccalls, year>>
  /\ ChefsOnly

\* main: if not new_photos_update_df.empty or not new_chefs_records_update_df.empty
ChefsBranch ==
  /\ cpc = "filtered"
  /\ cpc' = IF new_photos # {} \/ new_chefs_records # {} THEN "update" ELSE "exit"
  /\ UNCHANGED <<chefs, survey, survey123_properties, new_photos, new_chefs_records, ccalls, year>>
  /\ ChefsOnly

\* edit_ago_data, first half: update the features matched by unique_id
FeaturesToEdit(snapshot, update_df) ==
  {o \in DOMAIN snapshot : \E r \in update_df : r[1] = snapshot[o].unique_id}

ChefsUpdate ==
  /\ cpc = "update"
  /\ LET features_to_edit == FeaturesToEdit(survey123_properties, new_photos) IN
     IF features_to_edit # {}
     THEN /\ ccalls' = ccalls \cup {"update"}
          /\ \E outcome \in {"ok", "raise"} :
               IF outcome = "ok"
               THEN survey' = [o \in DOMAIN survey |->
                                 IF o \in features_to_edit
                                 THEN [survey[o] EXCEPT !.sighting_type = TRUE]
                                 ELSE survey[o]]
               ELSE survey' = survey
     ELSE UNCHANGED <<survey, ccalls>>
  /\ cpc' = "adds"
  /\ UNCHANGED <<chefs, survey123_properties, new_photos, new_chefs_records, year>>
  /\ ChefsOnly

\* edit_ago_data, second half: add the CHEFS records whose unique_id is not
\* among existing_unique_ids
FeaturesToAdd(snapshot, new_df) ==
  {r[1] : r \in {r \in new_df : \A o \in DOMAIN snapshot : snapshot[o].unique_id # r[1]}}

AddFeatures(layer, uids, yr) ==
  LET order == Ascending(uids)
      n == Len(Ascending(DOMAIN layer))
  IN [o \in 1..(n + Len(order)) |->
        IF o <= n THEN layer[o]
        ELSE [unique_id |-> order[o - n], photo_name |-> FALSE, sighting_type |-> TRUE,
              CreationDate |-> yr, Creator |-> "script"]]

ChefsAdd ==
  /\ cpc = "adds"
  /\ LET features_to_add == FeaturesToAdd(survey123_properties, new_chefs_records) IN
     IF features_to_add # {}
     THEN /\ ccalls' = ccalls \cup {"add"}
          /\ \E outcome \in EditOutcomes :
               IF outcome = "ok"
               THEN survey' = AddFeatures(survey, features_to_add, year)
               ELSE survey' = survey
     ELSE UNCHANGED <<survey, ccalls>>
  /\ cpc' = "rename"
  /\ UNCHANGED <<chefs, survey123_properties, new_photos, new_chefs_records, year>>
  /\ ChefsOnly

\* get_updated_ago_data and rename_attachments (the renaming itself is the
\* rename family below)
ChefsRename ==
  /\ cpc = "rename"
  /\ cpc' = "report"
  /\ ccalls' = ccalls \cup {"rename_attachments"}
  /\ UNCHANGED <<chefs, survey, survey123_properties, new_photos, new_chefs_records, year>>
  /\ ChefsOnly

\* create_excel_report and save_to_object_storage
ChefsReport ==
  /\ cpc = "report"
  /\ cpc' = "done"
  /\ ccalls' = ccalls \cup {"save_report"}
  /\ UNCHANGED <<chefs, survey, survey123_properties, new_photos, new_chefs_records, year>>
  /\ ChefsOnly

ChefsIdle ==
  /\ chefs = {}
  /\ survey = <<>>
  /\ cpc = "idle"
  /\ survey123_properties = <<>>
  /\ new_photos = {}
  /\ new_chefs_records = {}
  /\ ccalls = {}
  /\ year = 0

\* the layer before main first runs, in year 1, holds Survey123 submissions
\* only, of this year or of an earlier one
ChefsInit ==
  /\ chefs \in SUBSET Uids
  /\ year = 1
  /\ survey \in UNION {[1..n -> {f \in SurveyFeatures : f.Creator = "survey123"
                                                        /\ f.CreationDate <= year}] :
                        n \in 0..MaxSurvey}
  /\ cpc = "start"
  /\ survey123_properties = <<>>
  /\ new_photos = {}
  /\ new_chefs_records = {}
  /\ ccalls = {}

ChefsMain ==
  \/ ChefsGetData
  \/ ChefsBranch
  \/ ChefsUpdate
  \/ ChefsAdd
  \/ ChefsRename
  \/ ChefsReport

\* main is started again later: the year may have changed and CHEFS may hold
\* more submissions, each with its own unique_id
ChefsNextRun ==
  /\ cpc \in {"done", "exit"}
  /\ cpc' = "start"
  /\ year' \in {year, year + 1} \cap Years
  /\ chefs' \in {c \in SUBSET Uids : chefs \subseteq c}
  /\ survey123_properties' = <<>>
  /\ new_photos' = {}
  /\ new_chefs_records' = {}
  /\ ccalls' = {}
  /\ UNCHANGED survey
  /\ ChefsOnly

\* ---------------------------------------------------------------------------
\* rename_attachments / rename_photos
\* ---------------------------------------------------------------------------
MaxRec == 2       \* records on the layer are 1..MaxRec
MaxPhotos == 2    \* attachments stored on the layer before the first invocation

Recs == 1..MaxRec
\* "badger": rename_attachments of backup_data_and_photos.py and of
\* upload_chefs_to_ago.py, the same code twice; "culvert": rename_photos;
\* "hair": rename_attachments of hair_snag_data_modification.py
Variants == {"badger", "culvert", "hair"}

\* An attachment name.  pre is the record whose canonical prefix the name starts
\* with (0: none, a name as the field app gave it), n the number that follows the
\* prefix, ext the file type after the last dot.
RawName(id) == [pre |-> 0, n |-> id, ext |-> IF id % 2 = 1 THEN "jpg" ELSE "png"]

\* current_attach_name.startswith(prefix of the record)
AlreadyRenamedNever(oid, name) == FALSE
AlreadyRenamed(oid, name) == name.pre = oid

\* f"{prefix}_{attachment_counter}.{file_type}"
AttachmentName(oid, counter, current) == [pre |-> oid, n |-> counter, ext |-> current.ext]

\* the names of the attachments stored on a record, in attachment-list order
StoredNames(atts) == [i \in 1..Len(atts) |-> atts[i].name]

\* the list of names collected for the record once one more file was renamed
CollectedNames(v, list, name) ==
  IF v = "culvert" THEN <<name>>        \* photo_names = [] inside the loop
  ELSE Append(list, name)

\* feature_to_update: the copy of the queried feature, with the photo-name
\* field set to the joined list (rename_attachments of the hair-snag script
\* sets nothing)
FeatureToUpdate(v, oid, list) ==
  [oid |-> oid, photo_name |-> IF v = "hair" THEN flayer_data[oid] ELSE list]

\* attachments.update(oid, attachment_id, file_path): the file under the same id
UpdatedAttachment(atts, id, name) ==
  [i \in 1..Len(atts) |-> IF atts[i].id = id THEN [id |-> id, name |-> name] ELSE atts[i]]

\* attachments.add(oid, file_path): the file under a fresh id, last in the list
AddedAttachment(atts, id, name) == Append(atts, [id |-> id, name |-> name])

\* attachments.delete(oid, attachment_id)
DeletedAttachment(atts, id) == SelectSeq(atts, LAMBDA a : a.id # id)

\* the for loops move on: next attachment, next record, or the final edit
RenNext(i) ==
  IF i < Len(attachments_list)
  THEN /\ attIdx' = i + 1
       /\ rpc' = "attachment"
       /\ oidIdx' = oidIdx
  ELSE /\ attIdx' = attIdx
       /\ IF oidIdx < MaxRec
          THEN /\ oidIdx' = oidIdx + 1
               /\ rpc' = "list"
          ELSE /\ oidIdx' = oidIdx
               /\ rpc' = "edit"

\* flayer_properties.sdf['objectid'].tolist() and the features queried before
RenStart ==
  /\ rpc = "start"
  /\ flayer_data' = [o \in Recs |-> photos[o].photo_name]
  /\ features_for_update' = <<>>
  /\ oidIdx' = 1
  /\ rpc' = "list"
  /\ UNCHANGED <<variant, photos, nextAttId, rrun, attachments_list, attIdx,
                 attachment_counter, photo_name_list, rcalls, attached, rightAfter>>
  /\ RenameOnly

\* attachments.get_list(oid=oid) for the next record
RenGetList ==
  /\ rpc = "list"
  /\ attachments_list' = photos[oidIdx].atts
  /\ attachment_counter' = 1
  /\ photo_name_list' = <<>>
  /\ IF photos[oidIdx].atts # <<>>
     THEN /\ attIdx' = 1
          /\ rpc' = "attachment"
          /\ oidIdx' = oidIdx
     ELSE /\ attIdx' = attIdx
          /\ IF oidIdx < MaxRec
             THEN oidIdx' = oidIdx + 1 /\ rpc' = "list"
             ELSE oidIdx' = oidIdx /\ rpc' = "edit"
  /\ UNCHANGED <<variant, photos, nextAttId, rrun, flayer_data, features_for_update,
                 rcalls, attached, rightAfter>>
  /\ RenameOnly

\* what the service calls of one rename can do: the download fails; the update
\* succeeds; the update raises and the add-then-delete fallback succeeds; the
\* add of the fallback raises; the delete of the fallback raises
RenameOutcomes == {"download_failed", "updated", "added_deleted", "add_raised", "delete_raised"}

CallsOf(outcome) ==
  CASE outcome = "download_failed" -> {"download"}
    [] outcome = "updated" -> {"download", "update"}
    [] outcome = "add_raised" -> {"download", "update", "add"}
    [] OTHER -> {"download", "update", "add", "delete"}

\* one pass of the loop over attachments_list
RenAttachment ==
  /\ rpc = "attachment"
  /\ LET oid == oidIdx
         att == attachments_list[attIdx]
         name == AttachmentName(oid, attachment_counter, att.name)
         list == CollectedNames(variant, photo_name_list, name)
     IN
     IF AlreadyRenamed(oid, att.name)
     THEN \* continue
          /\ RenNext(attIdx)
          /\ UNCHANGED <<photos, nextAttId, attachment_counter, photo_name_list,
                         features_for_update, rcalls>>
     ELSE
       /\ attachment_counter' = attachment_counter + 1
       /\ \E outcome \in RenameOutcomes :
            /\ rcalls' = rcalls \cup {<<c, oid, att.id>> : c \in CallsOf(outcome)}
            /\ CASE outcome = "updated" ->
                      /\ photos' = [photos EXCEPT ![oid].atts = UpdatedAttachment(@, att.id, name)]
                      /\ nextAttId' = nextAttId
                 [] outcome = "added_deleted" ->
                      /\ photos' = [photos EXCEPT ![oid].atts =
                                      DeletedAttachment(AddedAttachment(@, nextAttId, name), att.id)]
                      /\ nextAttId' = nextAttId + 1
                 [] outcome = "delete_raised" ->
                      /\ photos' = [photos EXCEPT ![oid].atts = AddedAttachment(@, nextAttId, name)]
                      /\ nextAttId' = nextAttId + 1
                 [] OTHER -> UNCHANGED <<photos, nextAttId>>
            /\ IF outcome \in {"updated", "added_deleted"}
               THEN /\ photo_name_list' = list
                    /\ features_for_update' =
                         Append(features_for_update, FeatureToUpdate(variant, oid, list))
                    /\ RenNext(attIdx)
               ELSE \* the exception leaves the routine
                    /\ rpc' = "crashed"
                    /\ UNCHANGED <<photo_name_list, features_for_update, oidIdx, attIdx>>
  /\ UNCHANGED <<variant, rrun, flayer_data, attachments_list, attached, rightAfter>>
  /\ RenameOnly

\* edit_features(updates=features_for_update): the updates applied in order
RECURSIVE ApplyUpdates(_, _)
ApplyUpdates(layer, updates) ==
  IF updates = <<>> THEN layer
  ELSE ApplyUpdates([layer EXCEPT ![Head(updates).oid].photo_name = Head(updates).photo_name],
                    Tail(updates))

RenEdit ==
  /\ rpc = "edit"
  /\ IF features_for_update # <<>>
     THEN /\ rcalls' = rcalls \cup {<<"edit", 0, 0>>}
          /\ \E outcome \in EditOutcomes :
               CASE outcome = "ok" ->
                      photos' = ApplyUpdates(photos, features_for_update) /\ rpc' = "done"
                 [] outcome = "fail" -> photos' = photos /\ rpc' = "done"
                 [] OTHER -> photos' = photos /\ rpc' = "crashed"
     ELSE /\ rpc' = "done"
          /\ UNCHANGED <<photos, rcalls>>
  /\ UNCHANGED <<variant, nextAttId, rrun, flayer_data, oidIdx, attachments_list, attIdx,
                 attachment_counter, photo_name_list, features_for_update, attached,
                 rightAfter>>
  /\ RenameOnly

\* the scheduler starts the next invocation
RenNextRun ==
  /\ rpc \in {"done", "crashed"}
  /\ rrun < MaxRuns
  /\ rrun' = rrun + 1
  /\ rightAfter' = (rpc = "done" /\ ~attached)
  /\ attached' = FALSE
  /\ rpc' = "start"
  /\ flayer_data' = <<>>
  /\ oidIdx' = 0
  /\ attachments_list' = <<>>
  /\ attIdx' = 0
  /\ attachment_counter' = 0
  /\ photo_name_list' = <<>>
  /\ features_for_update' = <<>>
  /\ rcalls' = {}
  /\ UNCHANGED <<variant, photos, nextAttId>>
  /\ RenameOnly

\* between two invocations somebody attaches one more photo to a record
AttachPhoto ==
  /\ rpc \in {"done", "crashed"}
  /\ rrun < MaxRuns
  /\ ~attached
  /\ \E oid \in Recs :
       /\ photos' = [photos EXCEPT ![oid].atts = AddedAttachment(@, nextAttId, RawName(nextAttId))]
  /\ nextAttId' = nextAttId + 1
  /\ attached' = TRUE
  /\ UNCHANGED <<variant, rpc, rrun, flayer_data, oidIdx, attachments_list, attIdx,
                 attachment_counter, photo_name_list, features_for_update, rcalls, rightAfter>>
  /\ RenameOnly

\* a layer whose records hold photos as the field app stored them
RECURSIVE InitialPhotos(_, _, _)
InitialPhotos(count, oid, firstId) ==
  IF oid > MaxRec THEN <<>>
  ELSE LET atts == [i \in 1..count[oid] |->
                      [id |-> firstId + i - 1, name |-> RawName(firstId + i - 1)]]
       IN <<[photo_name |-> StoredNames(atts), atts |-> atts]>>
            \o InitialPhotos(count, oid + 1, firstId + count[oid])

RECURSIVE Sum(_, _)
Sum(f, n) == IF n = 0 THEN 0 ELSE f[n] + Sum(f, n - 1)

CopyIdle ==
  /\ ostore = {}
  /\ uploads = <<>>
  /\ copied = 0
  /\ cleanRuns = {}

RenameIdle ==
  /\ CopyIdle
  /\ variant = "none"
  /\ photos = <<>>
  /\ nextAttId = 1
  /\ rpc = "idle"
  /\ rrun = 0
  /\ flayer_data = <<>>
  /\ oidIdx = 0
  /\ attachments_list = <<>>
  /\ attIdx = 0
  /\ attachment_counter = 0
  /\ photo_name_list = <<>>
  /\ features_for_update = <<>>
  /\ rcalls = {}
  /\ attached = FALSE
  /\ rightAfter = FALSE

RenameStart(vs) ==
  /\ variant \in vs
  /\ \E count \in [Recs -> 0..MaxPhotos] :
       /\ Sum(count, MaxRec) <= MaxPhotos
       /\ photos = InitialPhotos(count, 1, 1)
       /\ nextAttId = Sum(count, MaxRec) + 1
  /\ rpc = "start"
  /\ rrun = 1
  /\ flayer_data = <<>>
  /\ oidIdx = 0
  /\ attachments_list = <<>>
  /\ attIdx = 0
  /\ attachment_counter = 0
  /\ photo_name_list = <<>>
  /\ features_for_update = <<>>
  /\ rcalls = {}
  /\ attached = FALSE
  /\ rightAfter = FALSE

RenameInit == RenameStart(Variants)

\* the photo_name field of every record as a query of the layer returns it
PhotoNames(layer) == [o \in Recs |-> layer[o].photo_name]

\* the elements of a list
Elements(list) == {list[i] : i \in 1..Len(list)}

\* copy_to_object_storage: the files it uploads, in order.  The attachments are
\* listed from the layer as it is now, the photo names are read from the
\* features handed in, lst_os_pictures is the listing taken before the loop.
RECURSIVE CopyToObjectStorage(_, _, _, _)
CopyToObjectStorage(features, layer, lst_os_pictures, oid) ==
  IF oid > MaxRec THEN <<>>
  ELSE LET lst_attachments == layer[oid].atts
           lst_new_pictures == Elements(features[oid]) \ lst_os_pictures
           chosen == SelectSeq(lst_attachments, LAMBDA a : a.name \in lst_new_pictures)
       IN [i \in 1..Len(chosen) |-> [oid |-> oid, name |-> chosen[i].name]]
            \o CopyToObjectStorage(features, layer, lst_os_pictures, oid + 1)

\* every call rename_attachments made in this run succeeded: no fallback was
\* entered, every download was followed by its update, the final edit was applied
RenameSucceeded ==
  /\ rpc = "done"
  /\ \A call \in rcalls :
       /\ call[1] \notin {"add", "delete"}
       /\ call[1] = "download" => <<"update", call[2], call[3]>> \in rcalls
  /\ photos = ApplyUpdates(photos, features_for_update)

\* download_attachments of the backup, called by run_app once rename_attachments
\* returned, with the features queried before the rename.  A call that raises
\* ends the run after the files uploaded so far.
DownloadAttachments ==
  /\ variant = "badger"
  /\ rpc = "done"
  /\ copied < rrun
  /\ LET todo == CopyToObjectStorage(flayer_data, photos, ostore, 1)
     IN \E k \in 0..Len(todo), ok \in BOOLEAN :
          /\ ok => k = Len(todo)
          /\ uploads' = SubSeq(todo, 1, k)
          /\ ostore' = ostore \cup {todo[i].name : i \in 1..k}
          /\ rpc' = IF ok THEN "done" ELSE "crashed"
          /\ cleanRuns' = IF ok /\ RenameSucceeded THEN cleanRuns \cup {rrun} ELSE cleanRuns
  /\ copied' = rrun
  /\ UNCHANGED <<variant, photos, nextAttId, rrun, flayer_data, oidIdx, attachments_list,
                 attIdx, attachment_counter, photo_name_list, features_for_update, rcalls,
                 attached, rightAfter>>
  /\ CopyOnly

\* download_attachments of simpcw_badger_photos.py, all run_app does: the
\* features are queried inside the routine, and an upload that fails is printed
\* and skipped
SimpcwDownloadAttachments ==
  /\ variant = "simpcw"
  /\ rpc = "start"
  /\ flayer_data' = PhotoNames(photos)
  /\ LET todo == CopyToObjectStorage(PhotoNames(photos), photos, ostore, 1)
     IN \E failed \in SUBSET (1..Len(todo)) :
          LET sent == {i \in 1..Len(todo) : i \notin failed}
          IN /\ uploads' = SelectSeq(todo, LAMBDA u : \E i \in sent : todo[i] = u)
             /\ ostore' = ostore \cup {todo[i].name : i \in sent}
             /\ cleanRuns' = IF failed = {} THEN cleanRuns \cup {rrun} ELSE cleanRuns
  /\ rpc' = "done"
  /\ copied' = rrun
  /\ UNCHANGED <<variant, photos, nextAttId, rrun, oidIdx, attachments_list,
                 attIdx, attachment_counter, photo_name_list, features_for_update, rcalls,
                 attached, rightAfter>>
  /\ CopyOnly

\* rename_attachments of the backup, step by step
BackupRename ==
  /\ variant = "badger"
  /\ (RenStart \/ RenGetList \/ RenAttachment \/ RenEdit)

\* the scheduler starts the next backup once run_app is over
BackupNextRun ==
  /\ (variant = "badger" /\ rpc = "done") => copied = rrun
  /\ RenNextRun

RenameNext ==
  \/ RenStart
  \/ RenGetList
  \/ RenAttachment
  \/ RenEdit
  \/ RenNextRun
  \/ AttachPhoto

\* ---------------------------------------------------------------------------
\* Status rollups
\* ---------------------------------------------------------------------------
MaxParent == 2    \* records of the point layer are 1..MaxParent
MaxCheck == 2     \* records in the related table
MaxTime == 2      \* timestamps of the related records are days 1..MaxTime
StaleDays == 5    \* number_of_days > 5

Parents == 1..MaxParent
Scripts == {"camera", "hair", "culvert"}

\* the fields each script rolls up, in the order run_app rolls them up
CameraFields == <<"CHECK_COMPLETE">>
HairFields == <<"SITE_STATUS", "CHECK_COMPLETE">>
CulvertFields == <<"MACHINE_EXCAV_REQ", "UNDERPASS_PRIORITY", "LANDSCAPE_CONNECT">>

FieldsOf(sc) ==
  CASE sc = "camera" -> CameraFields
    [] sc = "hair" -> HairFields
    [] OTHER -> CulvertFields

\* the values a field takes; the culvert fields are optional on the form
ValuesOf(sc) == IF sc = "culvert" THEN {"Yes", NULL} ELSE {"Yes", "No"}

Attributes(sc) == [Range(FieldsOf(sc)) -> ValuesOf(sc)]
CheckRecords(sc) == [parent : Parents, ts : 1..MaxTime, vals : Attributes(sc)]

\* the days "now" can be: the day of the last possible check, and two days
\* around the threshold after it
NowDays == {MaxTime, MaxTime + StaleDays, MaxTime + StaleDays + 1}

\* table.query(where=f"<id> = '{id}'") / query_related_records(object_ids=oid)
RelatedChecks(p) == {c \in checks : c.parent = p}

\* sort_values(by=<date>, ascending=False).iloc[0]: a record with the greatest
\* date; the sort leaves the order of equal dates open
LatestChecks(p) == {c \in RelatedChecks(p) : \A d \in RelatedChecks(p) : d.ts <= c.ts}

\* the parents a rollup does not skip
ParentsWithChecks == {p \in Parents : RelatedChecks(p) # {}}

\* camera_pt_complete != check_complete, cubby_loc_status != check_status,
\* cubby_loc_complete != check_complete
Differs(loc_value, check_value) == loc_value # check_value

\* pd.isna(loc_value) or loc_value != assessment_value
DiffersNever(loc_value, assessment_value) == FALSE
DiffersOrNull(loc_value, assessment_value) ==
  loc_value = NULL \/ loc_value # assessment_value

ToUpdate(sc, loc_value, check_value) ==
  IF sc = "culvert" THEN DiffersOrNull(loc_value, check_value)
  ELSE Differs(loc_value, check_value)

\* feature_to_update: deepcopy(original_feature) with the field set
FeatureCopy(p, field, value) == [point_data[p] EXCEPT ![field] = value]

\* edit_features(updates=features_for_update) on the point layer
EditFeatures(layer, updates) ==
  [p \in Parents |-> IF p \in DOMAIN updates THEN updates[p] ELSE layer[p]]

\* One rollup function: for every record of the snapshot that has related
\* records, compare the field with the latest related record, collect the
\* copies to update, and hand them to edit_features once.
Rollup(field, next, caught) ==
  \E latest \in [ParentsWithChecks -> checks] :
    /\ \A p \in ParentsWithChecks : latest[p] \in LatestChecks(p)
    /\ LET changed == {p \in ParentsWithChecks :
                         ToUpdate(script, point_data[p][field], latest[p].vals[field])}
           features_for_update_k ==
             [p \in changed |-> FeatureCopy(p, field, latest[p].vals[field])]
       IN
       /\ emitted' = emitted \cup {<<field, p, latest[p].vals[field]>> : p \in changed}
       /\ IF changed = {}
          THEN /\ kpc' = next
               /\ UNCHANGED <<parents, kok>>
          ELSE \E outcome \in EditOutcomes :
                 CASE outcome = "ok" ->
                        /\ parents' = EditFeatures(parents, features_for_update_k)
                        /\ kpc' = next
                        /\ kok' = kok
                   [] outcome = "fail" ->
                        /\ parents' = parents
                        /\ kpc' = next
                        /\ kok' = FALSE
                   [] OTHER ->
                        /\ parents' = parents
                        /\ kpc' = IF caught THEN next ELSE "crashed"
                        /\ kok' = FALSE
    /\ UNCHANGED <<script, checks, krun, point_data, inSync>>
    /\ RollupOnly

\* every parent that has related records agrees, field by field, with a latest one
InSync(layer) ==
  \A p \in ParentsWithChecks : \A i \in 1..Len(FieldsOf(script)) :
    \E c \in LatestChecks(p) : layer[p][FieldsOf(script)[i]] = c.vals[FieldsOf(script)[i]]

\* every parent that has related records agrees, field by field, with every
\* latest one: whichever record a sort puts first, nothing differs
Settled(layer) ==
  \A p \in ParentsWithChecks : \A i \in 1..Len(FieldsOf(script)) :
    \A c \in LatestChecks(p) : layer[p][FieldsOf(script)[i]] = c.vals[FieldsOf(script)[i]]

\* get_ago_layers / get_feature_layer_data: layer.query().features
GetLayers(sc, next) ==
  /\ script = sc
  /\ kpc = "start"
  /\ point_data' = parents
  /\ inSync' = Settled(parents)
  /\ kpc' = next
  /\ UNCHANGED <<script, parents, checks, krun, emitted, kok>>
  /\ RollupOnly

\* ----- camera_check_data_admin.py ------------------------------------------
CameraGetLayers == GetLayers("camera", "check_assessment_status")

\* check_assessment_status and the branch of run_app on its result
CheckAssessmentStatus ==
  /\ kpc = "check_assessment_status"
  /\ IF checks = {}
     THEN kpc' = "crashed"      \* check_date_list[0] of an empty list
     ELSE \E now \in NowDays :
            LET check_status_list == {c.vals["CHECK_COMPLETE"] : c \in checks}
                latest_check == CHOOSE t \in {c.ts : c \in checks} : \A c \in checks : c.ts <= t
                number_of_days == now - latest_check
            IN kpc' = IF number_of_days > StaleDays /\ "No" \notin check_status_list
                      THEN "change_check_status"
                      ELSE "update_camera_check_completion"
  /\ UNCHANGED <<script, parents, checks, krun, point_data, emitted, kok, inSync>>
  /\ RollupOnly

\* change_check_status: every point back to "No"
ChangeCheckStatus ==
  /\ kpc = "change_check_status"
  /\ emitted' = emitted \cup {<<"CHECK_COMPLETE", p, "No">> : p \in Parents}
  /\ \E outcome \in EditOutcomes :
       CASE outcome = "ok" ->
              /\ parents' = EditFeatures(parents,
                              [p \in Parents |-> FeatureCopy(p, "CHECK_COMPLETE", "No")])
              /\ kpc' = "done"
              /\ kok' = kok
         [] outcome = "fail" -> parents' = parents /\ kpc' = "done" /\ kok' = FALSE
         [] OTHER -> parents' = parents /\ kpc' = "crashed" /\ kok' = FALSE
  /\ UNCHANGED <<script, checks, krun, point_data, inSync>>
  /\ RollupOnly

UpdateCameraCheckCompletion ==
  /\ kpc = "update_camera_check_completion"
  /\ Rollup("CHECK_COMPLETE", "done", FALSE)

\* ----- hair_snag_data_modification.py --------------------------------------
HairGetData == GetLayers("hair", "update_cubby_status")

UpdateCubbyStatus ==
  /\ kpc = "update_cubby_status"
  /\ Rollup("SITE_STATUS", "cubby_check_complete", FALSE)

CubbyCheckComplete ==
  /\ kpc = "cubby_check_complete"
  /\ Rollup("CHECK_COMPLETE", "rename", FALSE)

\* the final edit_features of a rename routine on the point layer: the copies
\* of the queried features of the records that had a photo renamed (here any
\* set of records)
RenameWriteBack ==
  /\ kpc = "rename"
  /\ \E renamed \in SUBSET Parents :
       IF renamed = {}
       THEN /\ kpc' = "done"
            /\ UNCHANGED <<parents, kok>>
       ELSE \E outcome \in EditOutcomes :
              CASE outcome = "ok" ->
                     /\ parents' = EditFeatures(parents, [p \in renamed |-> point_data[p]])
                     /\ kpc' = "done"
                     /\ kok' = kok
                [] outcome = "fail" -> parents' = parents /\ kpc' = "done" /\ kok' = FALSE
                [] OTHER -> parents' = parents /\ kpc' = "crashed" /\ kok' = FALSE
  /\ UNCHANGED <<script, checks, krun, point_data, emitted, inSync>>
  /\ RollupOnly

\* ----- culvert_assessment_data_admin.py ------------------------------------
CulvertGetLayers == GetLayers("culvert", "MACHINE_EXCAV_REQ")

\* the three update_ago_data calls of run_app; the exception of edit_features
\* is caught and logged
UpdateAgoData ==
  \E i \in 1..Len(CulvertFields) :
    /\ script = "culvert"
    /\ kpc = CulvertFields[i]
    /\ Rollup(CulvertFields[i],
              IF i < Len(CulvertFields) THEN CulvertFields[i + 1] ELSE "rename", TRUE)

\* ----- scheduling -----------------------------------------------------------
RollupNextRun ==
  /\ kpc \in {"done", "crashed"}
  /\ krun < MaxRuns
  /\ krun' = krun + 1
  /\ kpc' = "start"
  /\ point_data' = <<>>
  /\ emitted' = {}
  /\ kok' = TRUE
  /\ inSync' = FALSE
  /\ UNCHANGED <<script, parents, checks>>
  /\ RollupOnly

RollupIdle ==
  /\ script = "none"
  /\ parents = <<>>
  /\ checks = {}
  /\ kpc = "idle"
  /\ krun = 0
  /\ point_data = <<>>
  /\ emitted = {}
  /\ kok = TRUE
  /\ inSync = FALSE

\* the subsets of S of at most k elements
RECURSIVE SubsetsUpTo(_, _)
SubsetsUpTo(S, k) ==
  IF k = 0 THEN {{}}
  ELSE LET T == SubsetsUpTo(S, k - 1) IN T \cup {t \cup {x} : t \in T, x \in S}

RollupInit(sc) ==
  /\ script = sc
  /\ parents \in [Parents -> Attributes(sc)]
  /\ checks \in SubsetsUpTo(CheckRecords(sc), MaxCheck)
  /\ kpc = "start"
  /\ krun = 1
  /\ point_data = <<>>
  /\ emitted = {}
  /\ kok = TRUE
  /\ inSync = FALSE

CameraNext ==
  \/ CameraGetLayers
  \/ CheckAssessmentStatus
  \/ ChangeCheckStatus
  \/ UpdateCameraCheckCompletion
  \/ RollupNextRun

HairNext ==
  \/ HairGetData
  \/ UpdateCubbyStatus
  \/ CubbyCheckComplete
  \/ RenameWriteBack
  \/ RollupNextRun

\* one invocation of the culvert script
CulvertNext ==
  \/ CulvertGetLayers
  \/ UpdateAgoData
  \/ RenameWriteBack

\* ---------------------------------------------------------------------------
\* Snapshots: export to GeoJSON, restore from object storage
\* ---------------------------------------------------------------------------
MaxFeat == 2       \* features of the exported layer
MaxSeconds == 1    \* the greatest time, in seconds, datetime.fromtimestamp accepts
MsPerSecond == 1000   \* value / 1000

\* An attribute value: a number, null, a text, or the ISO-8601 string of a
\* time given in milliseconds.
Num(n) == [t |-> "num", n |-> n]
Null == [t |-> "null", n |-> 0]
Text(n) == [t |-> "text", n |-> n]
Iso(ms) == [t |-> "iso", n |-> ms]
\* an exception leaves the conversion
Raised == [t |-> "raise", n |-> 0]

\* survey_start, survey_end, CreationDate, EditDate
TimestampKeys == {"survey_start"}
\* the attributes of a feature of the layer
Keys == {"survey_start", "observer", "photo_name", "SHAPE"}

\* epoch milliseconds: in range, and one second beyond the range
EpochMs == {sec * MsPerSecond : sec \in 0..(MaxSeconds + 1)}

AttributeMaps ==
  {f \in [Keys -> {Num(ms) : ms \in EpochMs} \cup {Null, Text(1)}] :
     /\ f["observer"] \in {Num(MsPerSecond), Null}
     /\ f["photo_name"] \in {Null, Text(1)}
     /\ f["SHAPE"] = Text(1)}

Geometries == {[x |-> 1, y |-> 2], [x |-> 2, y |-> 1]}

SourceFeatures == [attributes : AttributeMaps, geometry : Geometries]

\* convert_timestamp(key, value, unit='milliseconds')
ConvertTimestamp(key, value) ==
  IF key \in TimestampKeys
  THEN IF value.t # "num"
       THEN Raised                       \* value / 1000 of None or of a str: TypeError
       ELSE LET seconds == value.n \div MsPerSecond IN
            IF seconds <= MaxSeconds
            THEN Iso(value.n)            \* fromtimestamp(value, tz=utc).isoformat()
            ELSE Num(seconds)            \* except ...: return value, already divided
  ELSE value

\* the properties of one Feature of the document
PropertiesWithShape(feature) ==
  [key \in Keys |-> ConvertTimestamp(key, feature.attributes[key])]
Properties(feature) ==
  [key \in Keys \ {"SHAPE"} |-> ConvertTimestamp(key, feature.attributes[key])]

\* the geometry of one Feature of the document
PointGeometry(feature) ==
  [type |-> "Point", coordinates |-> <<feature.geometry.x, feature.geometry.y>>]

GeojsonFeature(feature) ==
  [type |-> "Feature", geometry |-> PointGeometry(feature), properties |-> Properties(feature)]

\* geojson_dict
GeojsonDict(features) ==
  [type |-> "FeatureCollection",
   features |-> [i \in 1..Len(features) |-> GeojsonFeature(features[i])]]

\* no document
NoDocument == [type |-> "none", features |-> <<>>]

\* building the document raises when the conversion of a property does
ConversionRaises(features) ==
  \E i \in 1..Len(features) : \E key \in Keys \ {"SHAPE"} :
    ConvertTimestamp(key, features[i].attributes[key]) = Raised

ConvertFlayerToGeojson ==
  /\ spc = "convert"
  /\ IF ConversionRaises(source)
     THEN spc' = "crashed" /\ geojson' = geojson
     ELSE spc' = "save" /\ geojson' = GeojsonDict(source)
  /\ UNCHANGED <<source, bucket, geojson_data, dest, fidx, sok>>
  /\ SnapshotOnly

\* ----- the bucket -----------------------------------------------------------
MaxDate == 2       \* the days a file name can carry are 1..MaxDate
MaxFiles == 2      \* objects in the bucket before the run

Dates == 1..MaxDate

\* An object of the bucket: whether its name ends in .geojson, what the date
\* pattern finds in the name ("date": a date dd-mm-yyyy; "none": no match;
\* "invalid": digits that are no date, as 40-13-2024), and the document in it.
BucketObject(isGeojson, token, date, doc) ==
  [geojson |-> isGeojson, token |-> token, date |-> date, doc |-> doc]

\* s3_object.put under the key that carries the date of the day: a new object,
\* or the new content of the object of that key
PutObject(objects, date, doc) ==
  IF \E i \in 1..Len(objects) :
       objects[i].geojson /\ objects[i].token = "date" /\ objects[i].date = date
  THEN [i \in 1..Len(objects) |->
          IF objects[i].geojson /\ objects[i].token = "date" /\ objects[i].date = date
          THEN BucketObject(TRUE, "date", date, doc) ELSE objects[i]]
  ELSE Append(objects, BucketObject(TRUE, "date", date, doc))

\* save_geojson_to_os: the exception of the upload is printed
SaveGeojsonToOs ==
  /\ spc = "save"
  /\ \E now \in Dates : \E outcome \in {"ok", "raise"} :
       bucket' = IF outcome = "ok" THEN PutObject(bucket, now, geojson) ELSE bucket
  /\ spc' = "exported"
  /\ UNCHANGED <<source, geojson, geojson_data, dest, fidx, sok>>
  /\ SnapshotOnly

\* ----- restore_data_from_os.py ---------------------------------------------
\* lst_geojson
LstGeojson(objects) == SelectSeq(objects, LAMBDA o : o.geojson)

\* max(lst_geojson, key=extract_date): the position of the first file with the
\* greatest date, or 0 when max raises: the list is empty, strptime rejects a
\* token, or a key that is None is compared
MaxByExtractDate(files) ==
  IF files = <<>> THEN 0
  ELSE IF \E i \in 1..Len(files) : files[i].token = "invalid" THEN 0
  ELSE IF Len(files) = 1 THEN 1
  ELSE IF \E i \in 1..Len(files) : files[i].token = "none" THEN 0
  ELSE CHOOSE i \in 1..Len(files) :
         /\ \A j \in 1..Len(files) : files[j].date <= files[i].date
         /\ \A j \in 1..(i - 1) : files[j].date < files[i].date

\* get_object_storage_content: a download answered with 404 is printed, and the
\* return of the unassigned geojson_data raises
GetObjectStorageContent ==
  /\ spc = "content"
  /\ LET lst_geojson == LstGeojson(bucket)
         latest == MaxByExtractDate(lst_geojson)
     IN IF latest = 0
        THEN spc' = "crashed" /\ geojson_data' = geojson_data
        ELSE \E outcome \in {"ok", "missing", "raise"} :
               IF outcome = "ok"
               THEN spc' = "layer" /\ geojson_data' = lst_geojson[latest].doc
               ELSE spc' = "crashed" /\ geojson_data' = geojson_data
  /\ UNCHANGED <<source, geojson, bucket, dest, fidx, sok>>
  /\ SnapshotOnly

\* what run_app does after get_feature_layer: the call of restore_data is a comment
AfterGetFeatureLayerRestores == "restore_data"
AfterGetFeatureLayer == "done"

\* get_feature_layer, and the rest of run_app
GetFeatureLayer(next) ==
  /\ spc = "layer"
  /\ spc' = next
  /\ UNCHANGED <<source, geojson, bucket, geojson_data, dest, fidx, sok>>
  /\ SnapshotOnly

\* run_app as shipped
ShippedGetFeatureLayer == GetFeatureLayer(AfterGetFeatureLayer)
\* run_app with the call of restore_data enabled by the operator
EnabledGetFeatureLayer == GetFeatureLayer("restore_data")

\* ago_flayer.manager.truncate()
TruncateLayer ==
  /\ spc = "restore_data"
  /\ \E outcome \in {"ok", "raise"} :
       IF outcome = "ok"
       THEN /\ dest' = <<>>
            /\ spc' = IF geojson_data.features = <<>> THEN "restored" ELSE "adding"
            /\ sok' = sok
       ELSE /\ dest' = dest
            /\ spc' = "crashed"
            /\ sok' = FALSE
  /\ fidx' = 1
  /\ UNCHANGED <<source, geojson, bucket, geojson_data>>
  /\ SnapshotOnly

\* the geometry the layer stores for Feature(geometry=...): a point when the
\* dictionary has the keys x and y, no geometry otherwise
NoGeometry == [empty |-> TRUE]
StoredGeometry(geometry) ==
  IF {"x", "y"} \subseteq DOMAIN geometry
  THEN [x |-> geometry.x, y |-> geometry.y]
  ELSE NoGeometry

\* Feature(geometry=feature['geometry'], attributes=feature['properties'])
RestoredFeature(feature, photos_added) ==
  [attributes |-> feature.properties,
   geometry |-> StoredGeometry(feature.geometry),
   atts |-> photos_added]

\* the photos upload_attachments can have attached: each name of photo_names
\* is downloaded and added, and each download and each add can fail
PhotosOf(feature) ==
  IF feature.properties["photo_name"] = Null THEN {} ELSE {feature.properties["photo_name"].n}

\* one pass of the loop of restore_data: edit_features(adds=[feature]) and,
\* for an added feature with photo names, upload_attachments
RestoreFeature ==
  /\ spc = "adding"
  /\ LET feature == geojson_data.features[fidx] IN
     \E outcome \in EditOutcomes :
       IF outcome = "ok"
       THEN \E photos_added \in SUBSET PhotosOf(feature) :
              /\ dest' = Append(dest, RestoredFeature(feature, photos_added))
              /\ sok' = (sok /\ photos_added = PhotosOf(feature))
       ELSE /\ dest' = dest
            /\ sok' = FALSE
  /\ fidx' = fidx + 1
  /\ spc' = IF fidx < Len(geojson_data.features) THEN "adding" ELSE "restored"
  /\ UNCHANGED <<source, geojson, bucket, geojson_data>>
  /\ SnapshotOnly

\* the operator runs the restore script, restore_data enabled, after the export
RunRestore ==
  /\ spc = "exported"
  /\ spc' = "content"
  /\ UNCHANGED <<source, geojson, bucket, geojson_data, dest, fidx, sok>>
  /\ SnapshotOnly

\* ----- initial states --------------------------------------------------------
\* the sequences of at most k elements of S
RECURSIVE SeqsUpTo(_, _)
SeqsUpTo(S, k) ==
  IF k = 0 THEN {<<>>}
  ELSE LET T == SeqsUpTo(S, k - 1) IN T \cup {Append(t, x) : t \in T, x \in S}

\* a document of an earlier export, and a record of the restored layer
SampleFeature == [attributes |-> [key \in Keys |-> IF key = "photo_name" THEN Null ELSE Text(1)],
                  geometry |-> [x |-> 1, y |-> 2]]
SampleDocuments == {GeojsonDict(<<>>), GeojsonDict(<<SampleFeature>>)}
SampleLayers == {<<>>, <<RestoredFeature([properties |-> SampleFeature.attributes,
                                           geometry |-> SampleFeature.geometry], {})>>}

BucketObjects ==
  {BucketObject(g, "date", d, doc) : g \in BOOLEAN, d \in Dates, doc \in SampleDocuments}
    \cup {BucketObject(g, token, 0, GeojsonDict(<<>>)) : g \in BOOLEAN, token \in {"none", "invalid"}}

SnapshotIdle ==
  /\ source = <<>>
  /\ geojson = NoDocument
  /\ bucket = <<>>
  /\ geojson_data = NoDocument
  /\ dest = <<>>
  /\ spc = "idle"
  /\ fidx = 0
  /\ sok = TRUE

\* the backup script is about to export a layer
ExportStart ==
  /\ source \in SeqsUpTo(SourceFeatures, MaxFeat)
  /\ geojson = NoDocument
  /\ bucket = <<>>
  /\ geojson_data = NoDocument
  /\ spc = "convert"
  /\ fidx = 0
  /\ sok = TRUE

\* the restore script starts
RestoreStart ==
  /\ source = <<>>
  /\ geojson = NoDocument
  /\ bucket \in SeqsUpTo(BucketObjects, MaxFiles)
  /\ geojson_data = NoDocument
  /\ dest \in SampleLayers
  /\ spc = "content"
  /\ fidx = 0
  /\ sok = TRUE

ExportNext ==
  \/ ConvertFlayerToGeojson
  \/ SaveGeojsonToOs

RestoreNext ==
  \/ GetObjectStorageContent
  \/ ShippedGetFeatureLayer

RoundTripNext ==
  \/ ConvertFlayerToGeojson
  \/ SaveGeojsonToOs
  \/ RunRestore
  \/ GetObjectStorageContent
  \/ EnabledGetFeatureLayer
  \/ TruncateLayer
  \/ RestoreFeature

\* ---------------------------------------------------------------------------
\* export_culvert_assessment_data.py
\* ---------------------------------------------------------------------------
MaxReq == 2        \* requests on the survey layer, globalids 1..MaxReq
MaxAssess == 2     \* records of the culvert assessment table, OBJECTIDs 1..MaxAssess

Guids == 1..MaxReq
AssessOids == 1..MaxAssess

\* the values of submission_status; "<null>" is the field left NULL
Statuses == {"NOT STARTED", "IN PROGRESS", "COMPLETE", "FAILED", "<null>", ""}

\* initials as typed on the form, and the days the dates can fall on
InitialsTyped == {"AB", "CD"}
Days == {1, 2}

\* the where clause of the query in check_new_records
SelectedNoInProgress(status) == status \in {"NOT STARTED", "<null>", ""}
Selected(status) == status \in {"IN PROGRESS", "NOT STARTED", "<null>", ""}

\* check_new_records: the globalids of the features the query returns, in the
\* order of the layer
RECURSIVE CheckNewRecords(_, _)
CheckNewRecords(layer, guid) ==
  IF guid > MaxReq THEN <<>>
  ELSE (IF Selected(layer[guid].status) THEN <<guid>> ELSE <<>>)
         \o CheckNewRecords(layer, guid + 1)

\* change_feature_status: the feature is queried, edit_features is called, and
\* an exception of edit_features is printed and dropped
StatusOutcomes == {"ok", "fail", "raise", "query_raised"}

ChangeFeatureStatus(layer, guid, new_status, outcome) ==
  IF outcome = "ok" THEN [layer EXCEPT ![guid].status = new_status] ELSE layer

\* UPPER(ASSESSOR_INITIALS) LIKE UPPER('%initials%'), on initials of one length
LikeInitials(assessor, initials) == assessor = initials

\* the date filter of get_culvert_assessment_data: DATE_ASSESSED, cut to
\* midnight, is taken as UTC and converted to US/Pacific, which puts it in the
\* evening of the day before; the bounds are midnight US/Pacific of the days
\* asked for
InDateRange(date_assessed, start_date, end_date) ==
  /\ date_assessed - 1 >= start_date
  /\ date_assessed - 1 < end_date

\* the assessments the first query returns, and those the date filter keeps
InitialQuery(guid) ==
  {o \in AssessOids : LikeInitials(assessments[o].initials, requests[guid].initials)}
DateQuery(guid) ==
  {o \in InitialQuery(guid) :
     InDateRange(assessments[o].date, requests[guid].start_date, requests[guid].end_date)}

\* the request the loop is at
Guid == new_guids[gidx]

\* the run ends on an exception
ReqCrash ==
  /\ xpc' = "crashed"
  /\ UNCHANGED <<new_guids, gidx>>

\* the for loop of main moves on
ReqAdvance ==
  /\ new_guids' = new_guids
  /\ IF gidx < Len(new_guids)
     THEN gidx' = gidx + 1 /\ xpc' = "status"
     ELSE gidx' = gidx /\ xpc' = "done"

\* check_new_records: connect, query, sys.exit() when nothing is selected
ReqCheckNewRecords ==
  /\ xpc = "start"
  /\ \E connected \in BOOLEAN :
       IF ~connected
       THEN xpc' = "crashed" /\ new_guids' = <<>> /\ gidx' = 0
       ELSE /\ new_guids' = CheckNewRecords(requests, 1)
            /\ IF new_guids' = <<>>
               THEN xpc' = "exit" /\ gidx' = 0
               ELSE xpc' = "status" /\ gidx' = 1
  /\ UNCHANGED <<requests, assessments, xrun, mails, archives>>
  /\ RequestOnly

\* head of the loop body: change_feature_status(IN PROGRESS), get_survey_data,
\* create_new_directory
ReqSetInProgress ==
  /\ xpc = "status"
  /\ \E outcome \in StatusOutcomes, survey_read \in BOOLEAN :
       IF outcome = "query_raised"
       THEN ReqCrash /\ requests' = requests
       ELSE /\ requests' = ChangeFeatureStatus(requests, Guid, "IN PROGRESS", outcome)
            /\ IF survey_read
               THEN xpc' = "query" /\ UNCHANGED <<new_guids, gidx>>
               ELSE ReqCrash
  /\ UNCHANGED <<assessments, xrun, mails, archives>>
  /\ RequestOnly

\* get_culvert_assessment_data.  With no assessment for the initials, or none in
\* the date range, the routine reads a local name that was never bound.  The
\* second query asks for "OBJECTID = <oids joined by commas>": it returns the
\* record when there is one oid and the record is still there, nothing
\* otherwise, or raises.
ReqGetCulvertAssessmentData ==
  /\ xpc = "query"
  /\ IF InitialQuery(Guid) = {} \/ DateQuery(Guid) = {}
     THEN ReqCrash
     ELSE \E answer \in {"features", "empty", "raise"} :
            /\ answer = "features" => Cardinality(DateQuery(Guid)) = 1
            /\ CASE answer = "features" -> xpc' = "export" /\ UNCHANGED <<new_guids, gidx>>
                 [] answer = "empty" -> xpc' = "failed" /\ UNCHANGED <<new_guids, gidx>>
                 [] OTHER -> ReqCrash
  /\ UNCHANGED <<requests, assessments, xrun, mails, archives>>
  /\ RequestOnly

\* the branch with data: download_to_other_spatial_format, save_photos_to_folder,
\* zip_project_files, upload_s3_object, send_email, change_feature_status(COMPLETE)
ExportOutcomes == {"files_raised", "upload_raised", "email_raised", "sent"}

ReqExport ==
  /\ xpc = "export"
  /\ \E outcome \in ExportOutcomes, edit \in StatusOutcomes :
       /\ archives' = IF outcome \in {"email_raised", "sent"}
                      THEN archives \cup {Guid} ELSE archives
       /\ IF outcome = "sent"
          THEN /\ mails' = mails \cup {[run |-> xrun, guid |-> Guid, kind |-> "link"]}
               /\ IF edit = "query_raised"
                  THEN ReqCrash /\ requests' = requests
                  ELSE /\ requests' = ChangeFeatureStatus(requests, Guid, "COMPLETE", edit)
                       /\ ReqAdvance
          ELSE /\ ReqCrash
               /\ UNCHANGED <<mails, requests>>
  /\ UNCHANGED <<assessments, xrun>>
  /\ RequestOnly

\* the branch without data: send_request_error_email,
\* change_feature_status(FAILED), sys.exit(...)
ReqNoData ==
  /\ xpc = "failed"
  /\ \E sent \in BOOLEAN, edit \in StatusOutcomes :
       IF ~sent
       THEN ReqCrash /\ UNCHANGED <<mails, requests>>
       ELSE /\ mails' = mails \cup {[run |-> xrun, guid |-> Guid, kind |-> "error"]}
            /\ UNCHANGED <<new_guids, gidx>>
            /\ IF edit = "query_raised"
               THEN xpc' = "crashed" /\ requests' = requests
               ELSE /\ requests' = ChangeFeatureStatus(requests, Guid, "FAILED", edit)
                    /\ xpc' = "exit"
  /\ UNCHANGED <<assessments, xrun, archives>>
  /\ RequestOnly

\* the scheduler starts the script again
ReqNextRun ==
  /\ xpc \in {"done", "exit", "crashed"}
  /\ xrun < MaxRuns
  /\ xrun' = xrun + 1
  /\ xpc' = "start"
  /\ new_guids' = <<>>
  /\ gidx' = 0
  /\ mails' = {}
  /\ archives' = {}
  /\ UNCHANGED <<requests, assessments>>
  /\ RequestOnly

RequestIdle ==
  /\ requests = <<>>
  /\ assessments = <<>>
  /\ xpc = "idle"
  /\ xrun = 0
  /\ new_guids = <<>>
  /\ gidx = 0
  /\ mails = {}
  /\ archives = {}

\* the status of a request no run has touched yet
Unprocessed == {"NOT STARTED", "<null>", ""}

\* the request layer and the assessment table when the first run starts: the
\* requests as the form submitted them, each asking for days 1 to 2, and
\* assessments made by AB
RequestStart ==
  /\ requests \in [Guids -> [status : Unprocessed, initials : InitialsTyped,
                             start_date : {1}, end_date : {2}]]
  /\ assessments \in [AssessOids -> [initials : {"AB"}, date : Days]]
  /\ xpc = "start"
  /\ xrun = 1
  /\ new_guids = <<>>
  /\ gidx = 0
  /\ mails = {}
  /\ archives = {}

RequestNext ==
  \/ ReqCheckNewRecords
  \/ ReqSetInProgress
  \/ ReqGetCulvertAssessmentData
  \/ ReqExport
  \/ ReqNoData
  \/ ReqNextRun

\* ---------------------------------------------------------------------------
\* Specifications
\* ---------------------------------------------------------------------------
\* one invocation of the append script, or one of the CHEFS upload
DifferInit ==
  \/ AppendInit /\ ChefsIdle /\ RenameIdle /\ RequestIdle /\ RollupIdle /\ SnapshotIdle
  \/ AppendIdle /\ ChefsInit /\ RenameIdle /\ RequestIdle /\ RollupIdle /\ SnapshotIdle

DifferNext ==
  \/ AppendRun
  \/ ChefsMain

SpecDiffer == DifferInit /\ [][DifferNext]_vars

\* the CHEFS upload run again and again
ChefsRunsInit == AppendIdle /\ ChefsInit /\ RenameIdle /\ RequestIdle /\ RollupIdle /\ SnapshotIdle

ChefsRunsNext ==
  \/ ChefsMain
  \/ ChefsNextRun

SpecChefsRuns == ChefsRunsInit /\ [][ChefsRunsNext]_vars

\* scheduled invocations of the append script, one at a time
AppendRunsNext ==
  \/ AppendRun
  \/ \E p \in Procs : NextRun(p)

AppendRunsInit == AppendInit /\ ChefsIdle /\ RenameIdle /\ RequestIdle /\ RollupIdle /\ SnapshotIdle

SpecAppendRuns == AppendRunsInit /\ [][AppendRunsNext]_vars

\* the same, from the day the editing layer is still empty: every record it
\* holds later was created by the script; one record of the raw layer at most
\* has attachments
FromEmptyInit ==
  /\ AppendRunsInit
  /\ editing = <<>>
  /\ Cardinality({o \in DOMAIN raw : raw[o].atts > 0}) <= 1

SpecAppendFromEmpty == FromEmptyInit /\ [][AppendRunsNext]_vars

\* two invocations of the append script started at about the same time (a
\* scheduled run and a manual one) against an editing layer that is still
\* empty; nothing in the script or on the layer serialises them.  photo_name
\* is set on the records that have attachments
MaxRaceRecords == 1   \* records on the raw layer when the two runs start

RaceInit ==
  /\ raw \in UNION {[S -> RawRecords] : S \in {T \in SUBSET Oids : Cardinality(T) <= MaxRaceRecords}}
  /\ Cardinality({o \in DOMAIN raw : raw[o].atts > 0}) <= 1
  /\ \A o \in DOMAIN raw : raw[o].photo_name <=> raw[o].atts > 0
  /\ editing = <<>>
  /\ nextOid = 1
  /\ pc = [p \in Procs |-> "start"]
  /\ run = [p \in Procs |-> 1]
  /\ raw_oids = [p \in Procs |-> <<>>]
  /\ editing_oids = [p \in Procs |-> <<>>]
  /\ new_oids = [p \in Procs |-> <<>>]
  /\ idx = [p \in Procs |-> 0]
  /\ editing_oid = [p \in Procs |-> 0]
  /\ lst = [p \in Procs |-> <<>>]
  /\ ai = [p \in Procs |-> 0]
  /\ calls = [p \in Procs |-> {}]
  /\ log = [p \in Procs |-> {}]
  /\ ChefsIdle /\ RenameIdle /\ RequestIdle /\ RollupIdle /\ SnapshotIdle

SpecAppendRace == RaceInit /\ [][AppendRun]_vars

\* scheduled invocations of one rename routine, photos being attached in between
RenameRunsInit ==
  RenameInit /\ CopyIdle /\ RequestIdle /\ AppendIdle /\ ChefsIdle /\ RollupIdle /\ SnapshotIdle

SpecRename == RenameRunsInit /\ [][RenameNext]_vars

\* the object store holds some of the photos already
BackupInit ==
  /\ RenameStart({"badger", "simpcw"})
  /\ ostore \in SUBSET UNION {Elements(photos[o].photo_name) : o \in Recs}
  /\ uploads = <<>>
  /\ copied = 0
  /\ cleanRuns = {}
  /\ RequestIdle /\ AppendIdle /\ ChefsIdle /\ RollupIdle /\ SnapshotIdle

BackupNext == BackupRename \/ DownloadAttachments \/ SimpcwDownloadAttachments \/ BackupNextRun

SpecBackup == BackupInit /\ [][BackupNext]_vars

\* scheduled runs of the culvert assessment export
RequestInit ==
  RequestStart /\ AppendIdle /\ ChefsIdle /\ RenameIdle /\ RollupIdle /\ SnapshotIdle

SpecRequests == RequestInit /\ [][RequestNext]_vars

\* scheduled invocations of the camera-check script
CameraInit == RollupInit("camera") /\ AppendIdle /\ ChefsIdle /\ RenameIdle /\ RequestIdle /\ SnapshotIdle

SpecCamera == CameraInit /\ [][CameraNext]_vars

\* scheduled invocations of the hair-snag script
HairInit == RollupInit("hair") /\ AppendIdle /\ ChefsIdle /\ RenameIdle /\ RequestIdle /\ SnapshotIdle

SpecHair == HairInit /\ [][HairNext]_vars

\* one invocation of the culvert script
CulvertInit == RollupInit("culvert") /\ AppendIdle /\ ChefsIdle /\ RenameIdle /\ RequestIdle /\ SnapshotIdle

SpecCulvert == CulvertInit /\ [][CulvertNext]_vars

\* the backup script exports one layer
ExportInit ==
  ExportStart /\ dest = <<>> /\ AppendIdle /\ ChefsIdle /\ RenameIdle /\ RequestIdle /\ RollupIdle

SpecExport == ExportInit /\ [][ExportNext]_vars

\* the restore script as shipped
RestoreInit == RestoreStart /\ AppendIdle /\ ChefsIdle /\ RenameIdle /\ RequestIdle /\ RollupIdle

SpecRestore == RestoreInit /\ [][RestoreNext]_vars

\* an export followed by a restore with restore_data enabled
RoundTripInit ==
  ExportStart /\ dest \in SampleLayers /\ AppendIdle /\ ChefsIdle /\ RenameIdle /\ RequestIdle /\ RollupIdle

SpecRoundTrip == RoundTripInit /\ [][RoundTripNext]_vars

\* ---------------------------------------------------------------------------
\* Properties of the append script and of the CHEFS upload
\* ---------------------------------------------------------------------------
\* find_new_oids has returned for run p
Found(p) == pc[p] \notin {"idle", "start", "find"}

NoDuplicates(s) == \A i, j \in DOMAIN s : i # j => s[i] # s[j]

\* the records of a layer that carry a given raw_flayer_oid
CopiesOf(layer, oid) == {o \in DOMAIN layer : layer[o].raw_flayer_oid = oid}

\* C1: find_new_oids yields exactly the identifiers that are among the source
\* objectids and not among the destination raw_flayer_oids, each once, and
\* yields nothing (the run exits) when every source identifier is in the
\* destination.
C1_FindNewOids ==
  \A p \in Procs :
    Found(p) =>
      /\ \A o \in Oids :
           (\E i \in DOMAIN new_oids[p] : new_oids[p][i] = o)
             <=> ( /\ \E i \in DOMAIN raw_oids[p] : raw_oids[p][i] = o
                   /\ \A j \in DOMAIN editing_oids[p] : editing_oids[p][j] # o )
      /\ \A i \in DOMAIN new_oids[p] : new_oids[p][i] \in Oids
      /\ NoDuplicates(new_oids[p])
      /\ (\A i \in DOMAIN raw_oids[p] :
            \E j \in DOMAIN editing_oids[p] : editing_oids[p][j] = raw_oids[p][i])
           => new_oids[p] = <<>> /\ pc[p] = "exit"

\* a run whose source and destination overlap and which found something new
C1_Witness ==
  \E p \in Procs :
    /\ pc[p] = "add"
    /\ new_oids[p] # <<>>
    /\ Range(raw_oids[p]) \cap Range(editing_oids[p]) # {}
    /\ Len(new_oids[p]) < Len(raw_oids[p])

\* an attachment of the record copied from oid failed to download or upload
AttachmentFailed(p, oid) ==
  <<"attachment_error", oid>> \in log[p] \/ <<"no_file", oid>> \in log[p]

\* C2 (as claimed): whenever downloading or uploading an attachment of a record
\* just added fails, that record is deleted: at the end of the run the
\* destination holds no record with that raw_flayer_oid and the differ of the
\* next run reports the identifier as new.
C2_RollbackOnAttachmentFailure ==
  \A p \in Procs :
    pc[p] = "done" =>
      \A oid \in Oids :
        AttachmentFailed(p, oid) =>
          /\ CopiesOf(editing, oid) = {}
          /\ oid \in NewOidSet(Ascending(DOMAIN raw), Column(editing, "raw_flayer_oid"))

\* C8: a failure while processing one new identifier does not prevent the add
\* from being attempted for every other identifier of new_oids in the same run.
C8_FailureIsolation ==
  \A p \in Procs :
    pc[p] = "done" =>
      \A i \in DOMAIN new_oids[p] : <<"add", new_oids[p][i]>> \in calls[p]

\* a finished run that failed on its first identifier and had another one
C8_Witness ==
  \E p \in Procs :
    /\ pc[p] = "done"
    /\ Len(new_oids[p]) >= 2
    /\ \/ <<"update_error", new_oids[p][1]>> \in log[p]
       \/ <<"add_failed", new_oids[p][1]>> \in log[p]
       \/ <<"attachment_error", new_oids[p][1]>> \in log[p]
    /\ <<"added", new_oids[p][2]>> \in log[p]

\* every service call of the run succeeded
AllCallsSucceeded(p) == \A e \in log[p] : e[1] = "added"

\* C9: after a run in which every service call succeeds, every identifier the
\* differ reported has exactly one destination record with that raw_flayer_oid,
\* and when the source photo_name is non-empty that record holds one attachment
\* per attachment of the source record.
C9_AddedWithAttachments ==
  \A p \in Procs :
    (pc[p] = "done" /\ AllCallsSucceeded(p)) =>
      \A i \in DOMAIN new_oids[p] :
        LET oid == new_oids[p][i] IN
          /\ Cardinality(CopiesOf(editing, oid)) = 1
          /\ raw[oid].photo_name =>
               \A o \in CopiesOf(editing, oid) :
                 /\ Len(editing[o].atts) = raw[oid].atts
                 /\ Range(editing[o].atts) = 1..raw[oid].atts

\* source {1, 2} and destination {1}: record 2 alone was added, with its photo
C9_Witness ==
  \E p \in Procs :
    /\ pc[p] = "done"
    /\ AllCallsSucceeded(p)
    /\ DOMAIN raw = {1, 2}
    /\ new_oids[p] = <<2>>
    /\ raw[2].photo_name
    /\ raw[2].atts >= 1
    /\ Cardinality(DOMAIN editing) = 2
    /\ \E o \in CopiesOf(editing, 2) : Len(editing[o].atts) = raw[2].atts

\* CHEFS: every submission already has its answers on the layer
NothingNewInChefs ==
  \A u \in chefs :
    /\ \E o \in DOMAIN survey123_properties : survey123_properties[o].unique_id = u
    /\ \A o \in DOMAIN survey123_properties :
         survey123_properties[o].unique_id = u => survey123_properties[o].sighting_type

\* C10: when every source identifier is already in the destination the append
\* run ends cleanly, without error and without any add, update, delete or
\* attachment call; the CHEFS upload exits without any edit when both the update
\* set and the new-record set are empty.
C10_CleanExit ==
  /\ \A p \in Procs :
       (Found(p) /\ Range(raw_oids[p]) \subseteq Range(editing_oids[p])) =>
         /\ pc[p] = "exit"
         /\ calls[p] = {}
         /\ log[p] = {<<"no_new_features", 0>>}
         /\ Column(editing, "raw_flayer_oid") = editing_oids[p]
  /\ cpc \notin {"idle", "start"} =>
       /\ (new_photos = {} /\ new_chefs_records = {}) <=> NothingNewInChefs
       /\ (cpc # "filtered" /\ NothingNewInChefs) =>
            /\ cpc = "exit"
            /\ ccalls = {}
            /\ survey123_properties = Query(survey, year)

\* a run that found a non-empty source entirely present in the destination
C10_Witness ==
  \E p \in Procs :
    /\ pc[p] = "exit"
    /\ raw_oids[p] # <<>>
    /\ Len(editing_oids[p]) > Len(raw_oids[p]) - 1

\* the final edit of this invocation carries an update of the record
Written(oid) == \E i \in 1..Len(features_for_update) : features_for_update[i].oid = oid

\* the photo-name field the final edit of this invocation wrote for the record
RECURSIVE WrittenName(_, _, _)
WrittenName(updates, oid, none) ==
  IF updates = <<>> THEN none
  ELSE WrittenName(Tail(updates), oid,
                   IF Head(updates).oid = oid THEN Head(updates).photo_name ELSE none)

\* C3: after a rename routine of the backup, CHEFS or culvert script has
\* finished, the photo-name field written for a record is the list, in
\* attachment-list order, of the names of all attachments stored on the record
C3_PhotoNameListsStoredAttachments ==
  (variant \in {"badger", "culvert"} /\ rpc = "done" /\ ~attached)
    => \A oid \in Recs :
         (Written(oid) /\ photos[oid].photo_name = WrittenName(features_for_update, oid, <<>>))
           => photos[oid].photo_name = StoredNames(photos[oid].atts)

\* C7: an attachment whose name starts with the canonical prefix of its record
\* is skipped without any attachment call, field update or change of the
\* layer, and an invocation started right after one that ran to its end issues
\* no attachment call and no edit
C7_SkipsCanonical ==
  (rpc = "attachment" /\ AlreadyRenamed(oidIdx, attachments_list[attIdx].name))
     => (rcalls' = rcalls /\ photos' = photos /\ features_for_update' = features_for_update)

C7_RenameIdempotent ==
  /\ [][C7_SkipsCanonical]_vars
  /\ [](rightAfter => (rcalls = {} /\ features_for_update = <<>>))

\* the second invocation ran to its end over records that hold photos renamed by the first
C7_Witness ==
  /\ rightAfter
  /\ rpc = "done"
  /\ \E oid \in Recs : \E i \in 1..Len(photos[oid].atts) :
       AlreadyRenamed(oid, photos[oid].atts[i].name)

\* ---------------------------------------------------------------------------
\* Properties of the status rollups
\* ---------------------------------------------------------------------------
\* C4: at the end of a complete run of the hair-snag script (or of the culvert
\* script) in which every edit succeeded, every rolled-up field of every parent
\* that has a related record holds, on the layer, the value of a latest related
\* record: no later whole-record update wrote an older value back
C4_RolledUpFieldsAreLatest ==
  (script \in {"hair", "culvert"} /\ kpc = "done" /\ kok) => InSync(parents)

\* the related records of the parent have pairwise distinct timestamps
DistinctTimestamps(p) ==
  \A c, d \in RelatedChecks(p) : c # d => c.ts # d.ts

\* C5: once the rollups of a run of the hair-snag or of the culvert script are
\* through (the camera script has a second way to emit updates), for every parent whose related
\* records have distinct timestamps and every rolled-up field, an update was
\* emitted exactly if the value the parent had differs from the value of the
\* latest related record, and the update carries that value
C5_UpdateIffDiffers ==
  (script \in {"hair", "culvert"} /\ kpc \in {"rename", "done"}) =>
    \A p \in ParentsWithChecks : DistinctTimestamps(p) =>
      \A i \in 1..Len(FieldsOf(script)) : \A c \in LatestChecks(p) :
        LET field == FieldsOf(script)[i] IN
        /\ (\E v \in ValuesOf(script) : <<field, p, v>> \in emitted)
             <=> point_data[p][field] # c.vals[field]
        /\ \A v \in ValuesOf(script) : <<field, p, v>> \in emitted => v = c.vals[field]

\* C6: a run that starts when every parent agrees with its latest related
\* record emits no update of a parent
C6_InSyncRunEmitsNothing == inSync => emitted = {}

\* C11: a run of the camera-check script over an empty check table, where no
\* parent has a child, raises nothing and emits no update
C11_EmptyTableCompletes ==
  (script = "camera" /\ checks = {}) => (kpc # "crashed" /\ emitted = {})

\* ---------------------------------------------------------------------------
\* Properties of the export and of the restore
\* ---------------------------------------------------------------------------
\* the same value, a time being the same in milliseconds and as ISO string
SameValue(original, restored) ==
  \/ restored = original
  \/ original.t = "num" /\ restored = Iso(original.n)

\* C12: an export followed by the restore of the exported document, every
\* call succeeding, leaves one record per exported record, with equivalent
\* attributes and the same point
C12_RoundTrip ==
  (spc = "restored" /\ sok /\ geojson_data = geojson) =>
    /\ Len(dest) = Len(source)
    /\ \A i \in 1..Len(source) :
         /\ dest[i].geometry = source[i].geometry
         /\ \A key \in Keys \ {"SHAPE"} :
              SameValue(source[i].attributes[key], dest[i].attributes[key])

\* what the export is to write for a value: the ISO string for a valid time of
\* a timestamp field, the value itself otherwise
ExpectedProperty(key, value) ==
  IF key \in TimestampKeys /\ value.t = "num" /\ value.n \div MsPerSecond <= MaxSeconds
  THEN Iso(value.n)
  ELSE value

\* C13: the export never raises on a value of a timestamp field; a valid time
\* becomes its ISO string, every other value is written unchanged
C13_ConvertTimestamp ==
  /\ spc # "crashed"
  /\ spc \in {"save", "exported"} =>
       \A i \in 1..Len(source) : \A key \in Keys \ {"SHAPE"} :
         geojson.features[i].properties[key] = ExpectedProperty(key, source[i].attributes[key])

\* C14: when get_object_storage_content runs over a bucket with at least one
\* .geojson file, the selection raises nothing and picks a file that carries
\* the greatest date
SelectsLatest ==
  LET files == LstGeojson(bucket)
      latest == MaxByExtractDate(files)
  IN (spc = "content" /\ spc' # "content" /\ files # <<>>) =>
       /\ latest # 0
       /\ \A j \in 1..Len(files) :
            files[j].token = "date" =>
              (files[latest].token = "date" /\ files[j].date <= files[latest].date)

C14_LatestSnapshotSelected == [][SelectsLatest]_vars

\* C15: the restore script as shipped never enters restore_data and never
\* changes the layer
C15_ShippedNeverTruncates ==
  /\ [][dest' = dest]_vars
  /\ [](spc \notin {"restore_data", "adding", "restored"})

\* the shipped script ran to its end with a snapshot loaded and a layer that holds records
C15_Witness ==
  /\ spc = "done"
  /\ dest # <<>>
  /\ geojson_data.features # <<>>

C17_NoDuplicateUniqueId ==
  \A o1, o2 \in DOMAIN survey :
    (/\ o1 # o2
     /\ survey[o1].Creator = "script"
     /\ survey[o2].Creator = "script") => survey[o1].unique_id # survey[o2].unique_id

\* C18: after an invocation of the renaming ran to its end, no two renamed
\* attachments of one record share a name, also when the record already held
\* renamed attachments and one more attachment was added since
C18_RenamedNamesDistinct ==
  (rpc = "done" /\ ~attached) =>
    \A oid \in Recs : \A i, j \in 1..Len(photos[oid].atts) :
      (/\ i # j
       /\ AlreadyRenamed(oid, photos[oid].atts[i].name)
       /\ AlreadyRenamed(oid, photos[oid].atts[j].name))
         => photos[oid].atts[i].name # photos[oid].atts[j].name

\* an add that succeeded created one record, carrying the objectid of the
\* source record the loop is at
AddCarriesSourceOid ==
  \A o \in DOMAIN editing' \ DOMAIN editing :
    \E p \in Procs :
      /\ pc[p] = "add"
      /\ new_oids[p][idx[p]] \in DOMAIN raw
      /\ editing'[o].raw_flayer_oid = new_oids[p][idx[p]]

\* C19: with the runs executed one at a time, after any sequence of append
\* runs and whatever adds, attachment calls and deletes failed, no two records
\* of the destination carry the same raw_flayer_oid, and every record the
\* script created carries the objectid of its source record
C19_NoDuplicateCopies ==
  /\ [](\A oid \in Oids : Cardinality(CopiesOf(editing, oid)) <= 1)
  /\ [](\A o \in DOMAIN editing : editing[o].raw_flayer_oid \in DOMAIN raw)
  /\ [][AddCarriesSourceOid]_vars

\* a second run started although the first left a record whose attachment
\* failed and whose delete failed, next to a record copied without failure
C19_Witness ==
  /\ run["runA"] = 2
  /\ pc["runA"] = "exit"
  /\ \E o \in DOMAIN editing : editing[o].atts = <<>> /\ raw[editing[o].raw_flayer_oid].atts > 0
                                /\ raw[editing[o].raw_flayer_oid].photo_name
  /\ Cardinality(DOMAIN editing) = MaxOid

\* C20: two append runs that overlap can add the same source record twice: a
\* source objectid is carried by two destination records only when both runs
\* queried the editing layer before either had added it and each then added
\* it, and never by more records than there are runs
C20_RaceAddsTwice ==
  \A oid \in Oids :
    /\ Cardinality(CopiesOf(editing, oid)) <= Cardinality(Procs)
    /\ Cardinality(CopiesOf(editing, oid)) >= 2 =>
         \A p \in Procs :
           /\ <<"added", oid>> \in log[p]
           /\ oid \notin Range(editing_oids[p])
           /\ oid \in Range(new_oids[p])

\* both runs have ended and the destination holds two copies of one source record
C20_Witness ==
  /\ \A p \in Procs : pc[p] = "done"
  /\ \E oid \in Oids : Cardinality(CopiesOf(editing, oid)) = 2

\* the most recent check of the whole table is more than StaleDays old on one
\* of the days the run can take place, and no check says "No"
StaleAndComplete ==
  /\ checks # {}
  /\ \E now \in NowDays : \A c \in checks : now - c.ts > StaleDays
  /\ \A c \in checks : c.vals["CHECK_COMPLETE"] # "No"

\* not so on one of the days the run can take place
FreshOrIncomplete ==
  \/ checks = {}
  \/ \E now \in NowDays : \E c \in checks : now - c.ts <= StaleDays
  \/ \E c \in checks : c.vals["CHECK_COMPLETE"] = "No"

\* the step of run_app that follows check_assessment_status
ExactlyOneAction ==
  (script = "camera" /\ kpc = "check_assessment_status" /\ kpc' # kpc) =>
    /\ kpc' \in {"change_check_status", "update_camera_check_completion"}
    /\ kpc' = "change_check_status" => StaleAndComplete
    /\ kpc' = "update_camera_check_completion" => FreshOrIncomplete

\* the reset sets every point to "No" and ends the run, the rollup writes to a
\* point only the value of one of its latest checks
ActionIsWhole ==
  /\ (script = "camera" /\ kpc = "change_check_status" /\ kpc' # kpc) =>
        /\ kpc' \in {"done", "crashed"}
        /\ \A p \in Parents : <<"CHECK_COMPLETE", p, "No">> \in emitted'
  /\ (script = "camera" /\ kpc = "update_camera_check_completion" /\ kpc' # kpc) =>
        /\ kpc' \in {"done", "crashed"}
        /\ \A e \in emitted' \ emitted :
             \E c \in LatestChecks(e[2]) : c.vals[e[1]] = e[3]

\* C29: every run of the camera-check script takes exactly one of two
\* actions: the reset of every point to "No", without rollup, when the most
\* recent check is more than 5 days old and no check says "No"; the rollup
\* alone, without reset, in every other case
C29_ExactlyOneOfTwoActions ==
  /\ [][ExactlyOneAction]_vars
  /\ [][ActionIsWhole]_vars

\* the loop is at an attachment that is not skipped, and the calls of the path
\* taken for it succeed
RenamesOne ==
  /\ rpc = "attachment"
  /\ ~AlreadyRenamed(oidIdx, attachments_list[attIdx].name)
  /\ rpc' # "crashed"

\* the record holds as many attachments as before and the old name is gone
SameNumberOldNameGone ==
  RenamesOne =>
    /\ Len(photos'[oidIdx].atts) = Len(photos[oidIdx].atts)
    /\ \A i \in 1..Len(photos'[oidIdx].atts) :
         photos'[oidIdx].atts[i].name # attachments_list[attIdx].name

\* the new name is stored exactly once on the record
NewNameOnce ==
  RenamesOne =>
    Cardinality({i \in 1..Len(photos'[oidIdx].atts) :
                   photos'[oidIdx].atts[i].name =
                     AttachmentName(oidIdx, attachment_counter, attachments_list[attIdx].name)}) = 1

\* C23: renaming one attachment, by update or by add-then-delete, the calls
\* of the path succeeding, leaves the record with as many attachments as
\* before, the old name gone and the new name stored exactly once
C23_RenameKeepsOneCopy ==
  /\ [][SameNumberOldNameGone]_vars
  /\ [][NewNameOnce]_vars

\* the add of the fallback succeeded and its delete did not: the record holds
\* one attachment more than before
OrphanLeft ==
  /\ rpc = "attachment"
  /\ Len(photos'[oidIdx].atts) = Len(photos[oidIdx].atts) + 1

\* the routine goes on with the attachments and records that remain, and
\* keeps the field updates collected so far for the final edit
GoesOnAfterOrphan ==
  OrphanLeft =>
    /\ rpc' \in {"attachment", "list", "edit"}
    /\ \A i \in 1..Len(features_for_update) :
         i <= Len(features_for_update') /\ features_for_update'[i] = features_for_update[i]

\* C24: a failed delete in the add-then-delete fallback, which leaves an
\* orphan attachment, does not abort the renaming of the remaining records
\* and does not discard the photo-name updates collected in the run
C24_DeleteFailureNotFatal == [][GoesOnAfterOrphan]_vars

\* C25: in the restore, a record for which fetching or attaching a photo
\* failed is deleted again: every record the loop has left on the layer holds
\* every photo its photo_name lists
C25_FailedPhotoDeletesRecord ==
  spc \in {"adding", "restored"} =>
    \A i \in 1..Len(dest) :
      dest[i].atts = (IF dest[i].attributes["photo_name"] = Null THEN {}
                      ELSE {dest[i].attributes["photo_name"].n})

\* C22: after a backup run in which every service call succeeded (the rename,
\* then the copy), every attachment stored on the sightings layer has an object
\* of the same name in the object store, the attachments renamed in that run
\* included.
C22_EveryAttachmentBackedUp ==
  (variant = "badger" /\ copied = rrun /\ rrun \in cleanRuns) =>
    \A o \in Recs : Elements(StoredNames(photos[o].atts)) \subseteq ostore

\* the copy of this step uploads only names listed in the photo_name the routine
\* was handed, and none the listing taken before the copy held
UploadsOnlyNewListed ==
  copied' # copied =>
    \A i \in 1..Len(uploads') :
      /\ uploads'[i].name \in Elements(flayer_data'[uploads'[i].oid])
      /\ uploads'[i].name \notin ostore

\* the copy of a run that follows a run without a failure uploads nothing
SecondRunUploadsNothing ==
  (copied' # copied /\ rrun - 1 \in cleanRuns) => uploads' = <<>>

\* C27: the copy uploads an attachment only if its name is in the record's
\* photo_name and absent from the listing taken at the start; no stored object is
\* uploaded again; a run right after a successful one, the layer unchanged,
\* uploads nothing.
C27_CopyOnlyNewPhotos ==
  /\ [][UploadsOnlyNewListed]_vars
  /\ [][SecondRunUploadsNothing]_vars

\* the request that received the error mail and status FAILED is followed, in
\* the same run, by the next request of new_guids
FailedThenNext ==
  (xpc = "failed" /\ xpc' # xpc /\ gidx < Len(new_guids)
     /\ requests'[Guid].status = "FAILED") =>
    /\ xpc' = "status"
    /\ gidx' = gidx + 1

\* C21: in the per-request loop a request that ends FAILED is terminal for that
\* request only; every later request of new_guids is processed in the same run.
C21_FailedIsPerRequest == [][FailedThenNext]_vars

\* check_new_records returns exactly the requests whose status is IN PROGRESS,
\* NOT STARTED, null or empty
SelectsExactly ==
  (xpc = "start" /\ xpc' \in {"status", "exit"}) =>
    Elements(new_guids') =
      {g \in Guids : requests[g].status \in {"IN PROGRESS", "NOT STARTED", "<null>", ""}}

\* the request the loop works on was selected by this run, and is not one whose
\* status was COMPLETE or FAILED when the run started
ProcessedWasSelected ==
  xpc \in {"status", "query", "export", "failed"} =>
    /\ gidx \in 1..Len(new_guids)
    /\ \A g \in Guids :
         requests[g].status \in {"COMPLETE", "FAILED"} =>
           \A i \in gidx..Len(new_guids) : new_guids[i] # g

\* a request whose status is COMPLETE or FAILED keeps that status
DoneStaysDone ==
  \A g \in Guids :
    (xpc # "idle" /\ requests[g].status \in {"COMPLETE", "FAILED"}) =>
      requests'[g].status = requests[g].status

NoAssessment == InitialQuery(Guid) = {} \/ DateQuery(Guid) = {}

\* such a request takes the branch that mails the error
NoAssessmentTakesErrorBranch ==
  (xpc = "query" /\ xpc' # xpc /\ NoAssessment) => xpc' = "failed"

\* the error branch ends with one error mail and status FAILED
ErrorBranchEndsFailed ==
  (xpc = "failed" /\ xpc' # xpc) =>
    /\ requests'[Guid].status = "FAILED"
    /\ mails' = mails \cup {[run |-> xrun, guid |-> Guid, kind |-> "error"]}
    /\ xpc' = "exit"

\* C28: a selected request with no assessment for the requester's initials, or
\* none inside the date range, ends the run with status FAILED and one error
\* mail; that path never leaves it IN PROGRESS.
C28_NoDataEndsFailed ==
  /\ [][NoAssessmentTakesErrorBranch]_vars
  /\ [][ErrorBranchEndsFailed]_vars

\* the status is IN PROGRESS when the assessment data is queried
InProgressBeforeQuery ==
  xpc = "query" => requests[Guid].status = "IN PROGRESS"

\* a request becomes COMPLETE only in the step in which its archive was uploaded
\* and its mail sent
CompleteAfterUploadAndMail ==
  \A g \in Guids :
    (xpc # "idle" /\ requests'[g].status = "COMPLETE" /\ requests[g].status # "COMPLETE") =>
      /\ g \in archives'
      /\ [run |-> xrun, guid |-> g, kind |-> "link"] \in mails'

\* C30: submission_status is set to IN PROGRESS before any assessment data is
\* queried, and to COMPLETE only after upload_s3_object and send_email returned;
\* no request reaches COMPLETE without its archive uploaded.
C30_StatusOrder ==
  /\ [](InProgressBeforeQuery)
  /\ [][CompleteAfterUploadAndMail]_vars

====
